---- MODULE Spec2Model ----
(***************************************************************************)
(* State-machine model of the SNAT UDP relay (main.go): one Relay per      *)
(* listen port, each with its session table, its per-session sockets, the  *)
(* handleClientPacket goroutines spawned by the ingress loop, the          *)
(* handleTargetResponses goroutine per backend socket, the cleanupSessions *)
(* reaper and the monitorDNS / migrateSessionsToNewTarget migrator.        *)
(***************************************************************************)
EXTENDS Integers, Sequences, FiniteSets, TLC

(* ---------------------------- bounds ----------------------------------- *)
\* events of the environment in one run: datagrams, replies, DNS ticks and
\* failing DialUDP calls together
MaxEvents == 3
\* datagrams the clients send
MaxPkts == 3
\* replies the backend sends
MaxReplies == 2
\* ticks of the monitorDNS ticker
MaxDnsTicks == 1
\* DialUDP calls that fail
MaxDialFails == 1
\* Write calls that fail on an open socket (ICMP unreachable, full buffers)
MaxIoFails == 1
\* distinct client addresses
NumClients == 2
\* distinct addresses the backend name resolves to
NumIPs == 2
\* the model's clock stops here
MaxTime == 2
\* -timeout flag, in clock units
Timeout == 1
\* listen ports given to main in the multi-port specification
NumPorts == 2
\* length of the longest datagram a client sends
MaxLen == 3
\* events of the environment in the runs of the longer scenarios
DeepEvents == 4

(* ------------------------- program constants --------------------------- *)
\* cleanupSessions: time.NewTicker(30 * time.Second), one clock unit
ReaperPeriod == 1
\* -buffer flag (1500 bytes by default), scaled
BufferSize == 2

Keys == 1..NumClients
\* every session creation and every re-homing starts one handleTargetResponses
EgrIds == 1..(DeepEvents + NumClients * MaxDnsTicks)
IPs == 1..NumIPs
AllPorts == 1..NumPorts

NoAddr == [ip |-> 0, port |-> 0]
\* net.ResolveUDPAddr("udp", r.targetAddr): the port is the one written in
\* the target string, the IP is whatever the name resolves to at that time.
ResolveUDPAddr(i) == [ip |-> i, port |-> 1]

Free == [kind |-> "none", id |-> 0]
Holder(k, i) == [kind |-> k, id |-> i]

Min(a, b) == IF a < b THEN a ELSE b

VARIABLES
    cfg,          \* flags parsed by main: ports, dnsCheckInterval, timeout, bufferSize
    budget,       \* what the environment may still do: events in all, pkts, replies, dns, dialFails, ioFails
    now,          \* the clock (time.Now())
    proc,         \* "running" | "aborted" (an unrecovered panic ends every goroutine)
    rstate,       \* per port: "new" | "running" | "failed" (Start returned an error)
    targetConn,   \* per port: Relay.targetConn
    sessions,     \* per port: Relay.sessions, client key -> session object (0: no entry)
    sessionsMu,   \* per port: holder of Relay.sessionsMu
    sess,         \* per port: the ClientSession objects ever allocated
    socks,        \* per port: the UDP sockets ever dialed
    buffer,       \* per port: the ingress loop's receive buffer
    hcp,          \* per port: handleClientPacket goroutines
    egr,          \* per port: handleTargetResponses goroutines
    reaper,       \* per port: cleanupSessions goroutine
    mon,          \* per port: monitorDNS goroutine
    fwd,          \* per port: log of Write calls on backend sockets
    rpl           \* per port: log of Write calls on client-facing sockets

vars == <<cfg, budget, now, proc, rstate, targetConn, sessions, sessionsMu, sess,
          socks, buffer, hcp, egr, reaper, mon, fwd, rpl>>

\* time.NewTicker(30 * time.Second) of cleanupSessions in unnamed/part_001
SimpleReaperPeriod == 1

(* --------------------------- helpers ----------------------------------- *)
\* the environment may still produce an event of this kind
CanSpend(kind) == budget.events > 0 /\ budget[kind] > 0

Spend(kind) == [budget EXCEPT !.events = @ - 1, ![kind] = @ - 1]

Running(r) == proc = "running" /\ rstate[r] = "running"

\* a new UDP socket as DialUDP returns it
NewSock(kind, addr, peer) ==
    [kind |-> kind, addr |-> addr, peer |-> peer, open |-> TRUE, closes |-> 0,
     deadline |-> -1]

\* conn.Close(): the socket is closed; closes counts the Close calls on it
CloseSock(ss, c) == [ss EXCEPT ![c].open = FALSE, ![c].closes = @ + 1]

\* sync.Mutex.Lock() on Relay.sessionsMu can return
SessionsMuFree(r) == sessionsMu[r] = Free

\* sync.Mutex.Lock() on ClientSession.mu can return
SessionMuFree(r, s) == sess[r][s].mu = Free

NoReaper == [pc |-> "off", next |-> 0]
\* ticks and err record the last call of ResolveUDPAddr in the loop
\* failed / migrated: the keys the last sweep logged as "Failed to migrate
\* session" / "Migrated session"
\* res: what that call resolved to (0: nothing); changes: the ticks that found
\* a changed address; sweeps: the calls of migrateSessionsToNewTarget
NoMon == [pc |-> "off", newAddr |-> NoAddr, left |-> {}, cur |-> 0, ticks |-> 0, err |-> FALSE,
          failed |-> {}, migrated |-> {}, res |-> 0, changes |-> 0, sweeps |-> 0]
\* a goroutine that has returned (its client key is kept for the numbering of clients)
DoneHcp(k) == [pc |-> "done", key |-> k, seq |-> 0, n |-> 0, data |-> <<>>, orig |-> <<>>, s |-> 0,
               target |-> NoAddr]
NoEgr == [pc |-> "done", key |-> 0, s |-> 0, conn |-> 0, seq |-> 0, gen |-> 0]

\* session.toServerConn.SetReadDeadline(time.Now().Add(r.timeout)) on socket c;
\* on a closed socket the call returns an error that the code ignores
SetReadDeadline(ss, c) ==
    [ss EXCEPT ![c].deadline = IF ss[c].open THEN now + cfg.timeout ELSE @]

\* a go statement that starts nothing
NewEgr_Dead(k, s, g) == NoEgr

\* go r.handleTargetResponses(session, clientKey): the goroutine has made its
\* buffer and is about to call Read (the SetReadDeadline of its first
\* iteration is part of the step that starts it); gen tells which backend
\* socket of the session it was started for (0: the one dialed at creation)
NewEgr(k, s, g) == [pc |-> "read", key |-> k, s |-> s, conn |-> 0, seq |-> 0, gen |-> g]

(* ---------------------------- Init ------------------------------------- *)
\* the datagrams are opaque to the relay: the i-th datagram a port receives
\* carries the byte i, Min(i, MaxLen) times, so that no two are alike and the
\* later ones are longer than the receive buffer
Payload(i) == [j \in 1..Min(i, MaxLen) |-> i]

InitRelays ==
    /\ now = 0
    /\ proc = "running"
    /\ rstate = [r \in AllPorts |-> IF r \in cfg.ports THEN "new" ELSE "off"]
    /\ targetConn = [r \in AllPorts |-> NoAddr]
    /\ sessions = [r \in AllPorts |-> [k \in Keys |-> 0]]
    /\ sessionsMu = [r \in AllPorts |-> Free]
    /\ sess = [r \in AllPorts |-> <<>>]
    /\ socks = [r \in AllPorts |-> <<>>]
    /\ buffer = [r \in AllPorts |-> [i \in 1..cfg.bufferSize |-> 0]]
    /\ hcp = [r \in AllPorts |-> <<>>]
    /\ egr = [r \in AllPorts |-> <<>>]
    /\ reaper = [r \in AllPorts |-> NoReaper]
    /\ mon = [r \in AllPorts |-> NoMon]
    /\ fwd = [r \in AllPorts |-> <<>>]
    /\ rpl = [r \in AllPorts |-> <<>>]

\* one listen port, the default (positive) DNS check interval
Init ==
    /\ cfg = [ports |-> {1}, dnsCheckInterval |-> 1, timeout |-> Timeout,
              bufferSize |-> BufferSize]
    /\ budget = [events |-> MaxEvents, pkts |-> MaxPkts, replies |-> MaxReplies,
                 dns |-> MaxDnsTicks, dialFails |-> MaxDialFails,
                 ioFails |-> MaxIoFails]
    /\ InitRelays

(* ------------------------ main / Relay.Start --------------------------- *)
\* main, after Start returned an error: the error is logged and the goroutine
\* of that port ends; the process goes on.
MainOnStartError_Fatal(p) == "aborted"

MainOnStartError(p) == p

\* Start returns the error of ResolveUDPAddr (the target is not set)
StartResolveError(r) ==
    /\ proc = "running" /\ rstate[r] = "new"
    /\ rstate' = [rstate EXCEPT ![r] = "failed"]
    /\ proc' = MainOnStartError(proc)
    /\ UNCHANGED <<cfg, budget, now, targetConn, sessions, sessionsMu, sess, socks,
                   buffer, hcp, egr, reaper, mon, fwd, rpl>>

\* Start sets the target, then returns the error of ListenUDP
StartListenError(r) ==
    /\ proc = "running" /\ rstate[r] = "new"
    /\ targetConn' = [targetConn EXCEPT ![r] = ResolveUDPAddr(1)]
    /\ rstate' = [rstate EXCEPT ![r] = "failed"]
    /\ proc' = MainOnStartError(proc)
    /\ UNCHANGED <<cfg, budget, now, sessions, sessionsMu, sess, socks,
                   buffer, hcp, egr, reaper, mon, fwd, rpl>>

\* Start resolves, binds, starts monitorDNS and cleanupSessions and enters the
\* ingress loop
Start(r) ==
    /\ proc = "running" /\ rstate[r] = "new"
    /\ targetConn' = [targetConn EXCEPT ![r] = ResolveUDPAddr(1)]
    /\ rstate' = [rstate EXCEPT ![r] = "running"]
    /\ mon' = [mon EXCEPT ![r] = [NoMon EXCEPT !.pc = "init"]]
    /\ reaper' = [reaper EXCEPT ![r] = [NoReaper EXCEPT !.pc = "idle",
                                                        !.next = now + ReaperPeriod]]
    /\ UNCHANGED <<cfg, budget, now, proc, sessions, sessionsMu, sess, socks,
                   buffer, hcp, fwd, rpl, egr>>

(* ---------------------------- ingress loop ----------------------------- *)
\* the slice handleClientPacket works on: dataCopy, private to the goroutine
HandlerData_Alias(r, t) == SubSeq(buffer[r], 1, hcp[r][t].n)

HandlerData(r, t) == hcp[r][t].data

\* the client addresses are numbered in the order of their first datagram
SeenClients(r) == Cardinality({k \in Keys : \E t \in 1..Len(hcp[r]) : hcp[r][t].key = k})

\* one iteration of the loop of Start: ReadFromUDP into the reused buffer,
\* copy of the n bytes read, go handleClientPacket(dataCopy, clientAddr)
IngressRead(r) ==
    /\ Running(r)
    /\ CanSpend("pkts")
    /\ \E k \in 1..Min(NumClients, SeenClients(r) + 1) :
         LET p == Payload(Len(hcp[r]) + 1)
             n == Min(Len(p), cfg.bufferSize)
             buf == [i \in 1..cfg.bufferSize |-> IF i <= n THEN p[i] ELSE buffer[r][i]]
         IN /\ buffer' = [buffer EXCEPT ![r] = buf]
            /\ hcp' = [hcp EXCEPT ![r] = Append(@,
                         [pc |-> "lock", key |-> k, seq |-> Len(hcp[r]) + 1, n |-> n,
                          data |-> SubSeq(buf, 1, n), orig |-> SubSeq(p, 1, n), s |-> 0,
                          target |-> NoAddr])]
    /\ budget' = Spend("pkts")
    /\ UNCHANGED <<cfg, now, proc, rstate, targetConn, sessions, sessionsMu, sess,
                   socks, egr, reaper, mon, fwd, rpl>>

(* ------------------------- handleClientPacket -------------------------- *)
\* who holds sessionsMu between the lookup that found no entry and the insert:
\* the goroutine itself, from Lock() to Unlock()
HcpHolds_Released(r, t) == Free

HcpHolds(r, t) == Holder("hcp", t)

\* targetConnMu.RLock(); targetConn := r.targetConn; targetConnMu.RUnlock()
ReadTarget(r) == targetConn[r]

\* sessionsMu.Lock() and the lookup; an existing session is taken and the lock
\* released, otherwise the goroutine reads the current target and goes on to
\* create a session, holding the lock
HcpLock(r, t) ==
    /\ Running(r)
    /\ t \in 1..Len(hcp[r]) /\ hcp[r][t].pc = "lock"
    /\ SessionsMuFree(r)
    /\ LET k == hcp[r][t].key IN
       IF sessions[r][k] # 0
       THEN /\ hcp' = [hcp EXCEPT ![r][t].pc = "touch", ![r][t].s = sessions[r][k]]
            /\ UNCHANGED sessionsMu
       ELSE /\ hcp' = [hcp EXCEPT ![r][t].pc = "create", ![r][t].target = ReadTarget(r)]
            /\ sessionsMu' = [sessionsMu EXCEPT ![r] = HcpHolds(r, t)]
    /\ UNCHANGED <<cfg, budget, now, proc, rstate, targetConn, sessions, sess, socks,
                   buffer, egr, reaper, mon, fwd, rpl>>

\* an error return that leaves sessionsMu locked
DialErrorUnlock_Forgotten(r, t) == sessionsMu[r]

\* r.sessionsMu.Unlock() before the return of a failed DialUDP
DialErrorUnlock(r, t) == Free

\* DialUDP to the target fails: unlock and return
HcpDialServerError(r, t) ==
    /\ Running(r)
    /\ t \in 1..Len(hcp[r]) /\ hcp[r][t].pc = "create"
    /\ CanSpend("dialFails")
    /\ budget' = Spend("dialFails")
    /\ hcp' = [hcp EXCEPT ![r][t] = DoneHcp(hcp[r][t].key)]
    /\ sessionsMu' = [sessionsMu EXCEPT ![r] = DialErrorUnlock(r, t)]
    /\ UNCHANGED <<cfg, now, proc, rstate, targetConn, sessions, sess, socks,
                   buffer, egr, reaper, mon, fwd, rpl>>

\* a failure path that forgets the backend socket it has dialed
FailedDialSock_Leaked(addr, k) == NewSock("srv", addr, k)

\* the backend socket of an attempt whose second DialUDP failed:
\* toServerConn.Close()
FailedDialSock(addr, k) == [NewSock("srv", addr, k) EXCEPT !.open = FALSE, !.closes = 1]

\* DialUDP to the client fails: the server socket is closed, unlock and return
HcpDialClientError(r, t) ==
    /\ Running(r)
    /\ t \in 1..Len(hcp[r]) /\ hcp[r][t].pc = "create"
    /\ CanSpend("dialFails")
    /\ budget' = Spend("dialFails")
    /\ socks' = [socks EXCEPT ![r] =
                   Append(@, FailedDialSock(hcp[r][t].target, hcp[r][t].key))]
    /\ hcp' = [hcp EXCEPT ![r][t] = DoneHcp(hcp[r][t].key)]
    /\ sessionsMu' = [sessionsMu EXCEPT ![r] = DialErrorUnlock(r, t)]
    /\ UNCHANGED <<cfg, now, proc, rstate, targetConn, sessions, sess,
                   buffer, egr, reaper, mon, fwd, rpl>>

\* both sockets dialed: the session is inserted, its handleTargetResponses
\* goroutine started, the lock released
HcpCreate(r, t) ==
    /\ Running(r)
    /\ t \in 1..Len(hcp[r]) /\ hcp[r][t].pc = "create"
    /\ LET k == hcp[r][t].key
           c1 == Len(socks[r]) + 1
           c2 == Len(socks[r]) + 2
           s == Len(sess[r]) + 1
       IN /\ socks' = [socks EXCEPT ![r] =
                         @ \o <<NewSock("srv", hcp[r][t].target, k),
                                NewSock("cli", NoAddr, k)>>]
          /\ sess' = [sess EXCEPT ![r] = Append(@,
                        [clientAddr |-> k, toServerConn |-> c1, toClientConn |-> c2,
                         lastActive |-> now, mu |-> Free, by |-> t, gen |-> 0])]
          /\ sessions' = [sessions EXCEPT ![r][k] = s]
          /\ egr' = [egr EXCEPT ![r] = Append(@, NewEgr(k, s, 0))]
          /\ hcp' = [hcp EXCEPT ![r][t].pc = "touch", ![r][t].s = s,
                                  ![r][t].target = NoAddr]
    /\ sessionsMu' = [sessionsMu EXCEPT ![r] = Free]
    /\ UNCHANGED <<cfg, budget, now, proc, rstate, targetConn, buffer, reaper, mon,
                   fwd, rpl>>

\* session.mu.Lock(); session.lastActive = time.Now(); session.mu.Unlock()
HcpTouch(r, t) ==
    /\ Running(r)
    /\ t \in 1..Len(hcp[r]) /\ hcp[r][t].pc = "touch"
    /\ SessionMuFree(r, hcp[r][t].s)
    /\ sess' = [sess EXCEPT ![r][hcp[r][t].s].lastActive = now]
    /\ hcp' = [hcp EXCEPT ![r][t].pc = "write"]
    /\ UNCHANGED <<cfg, budget, now, proc, rstate, targetConn, sessions, sessionsMu,
                   socks, buffer, egr, reaper, mon, fwd, rpl>>

\* a Write on socket c fails: always on a closed socket, and on an open one
\* when the kernel reports an error (io says so)
WriteOk(r, c, io) == socks[r][c].open /\ ~io

\* a handleClientPacket whose Write failed and that tears its session down
HcpOnWriteError_Close(r, k) == [sessions[r] EXCEPT ![k] = 0]

\* if err != nil { log.Printf("Error forwarding to target ...") }: the table
\* after the Write of handleClientPacket returned an error
HcpOnWriteError(r, k) == sessions[r]

\* session.toServerConn.Write(data); an error is logged, nothing else
HcpWrite(r, t) ==
    /\ Running(r)
    /\ t \in 1..Len(hcp[r]) /\ hcp[r][t].pc = "write"
    /\ \E io \in BOOLEAN :
         LET c == sess[r][hcp[r][t].s].toServerConn IN
         /\ io => socks[r][c].open /\ CanSpend("ioFails")
         /\ budget' = IF io THEN Spend("ioFails") ELSE budget
         /\ fwd' = [fwd EXCEPT ![r] = Append(@,
                 [key |-> hcp[r][t].key, seq |-> hcp[r][t].seq, s |-> hcp[r][t].s,
                  conn |-> c, open |-> socks[r][c].open, ok |-> WriteOk(r, c, io),
                  data |-> HandlerData(r, t),
                  orig |-> hcp[r][t].orig, nread |-> Len(hcp[r])])]
         /\ sessions' = [sessions EXCEPT ![r] =
                           IF WriteOk(r, c, io) THEN @ ELSE HcpOnWriteError(r, hcp[r][t].key)]
    /\ hcp' = [hcp EXCEPT ![r][t] = DoneHcp(hcp[r][t].key)]
    /\ UNCHANGED <<cfg, now, proc, rstate, targetConn, sessionsMu,
                   sess, socks, buffer, egr, reaper, mon, rpl>>

(* ----------------------------- closeSession ---------------------------- *)
\* closeSession(clientKey), under sessionsMu: whatever session the table holds
\* under the key has both of its sockets closed and its entry deleted
\* a closeSession without the lookup: it closes the sockets of the newest
\* session object of the key, in the table or not
CloseSession_NoLookup(tab, ss, se, k) ==
    LET own == {s \in 1..Len(se) : se[s].clientAddr = k} IN
    IF own = {} THEN [tab |-> tab, socks |-> ss]
    ELSE LET s == CHOOSE x \in own : \A y \in own : y <= x IN
         [tab |-> [tab EXCEPT ![k] = 0],
          socks |-> CloseSock(CloseSock(ss, se[s].toServerConn), se[s].toClientConn)]

\* a closeSession that closes the sockets and leaves the entry in the table
CloseSession_KeepEntry(tab, ss, se, k) ==
    IF tab[k] = 0 THEN [tab |-> tab, socks |-> ss]
    ELSE [tab |-> tab,
          socks |-> CloseSock(CloseSock(ss, se[tab[k]].toServerConn),
                              se[tab[k]].toClientConn)]

\* closeSession(k) applied to table tab and sockets ss (se: the session
\* objects): if session, exists := r.sessions[clientKey]; exists { ... }
CloseSession(tab, ss, se, k) ==
    IF tab[k] = 0 THEN [tab |-> tab, socks |-> ss]
    ELSE [tab |-> [tab EXCEPT ![k] = 0],
          socks |-> CloseSock(CloseSock(ss, se[tab[k]].toServerConn),
                              se[tab[k]].toClientConn)]

CloseSessionSocks(r, k) == CloseSession(sessions[r], socks[r], sess[r], k).socks

CloseSessionTable(r, k) == CloseSession(sessions[r], socks[r], sess[r], k).tab

(* ------------------------ handleTargetResponses ------------------------ *)
\* session.toServerConn.Read(buffer) is called: the field is read once more
\* and the goroutine blocks in Read on that socket
EgRead(r, e) ==
    /\ Running(r)
    /\ e \in 1..Len(egr[r]) /\ egr[r][e].pc = "read"
    /\ egr' = [egr EXCEPT ![r][e].pc = "blocked",
                          ![r][e].conn = sess[r][egr[r][e].s].toServerConn]
    /\ UNCHANGED <<cfg, budget, now, proc, rstate, targetConn, sessions, sessionsMu,
                   sess, socks, buffer, hcp, reaper, mon, fwd, rpl>>

\* Read returns a reply of the backend
EgReadData(r, e) ==
    /\ Running(r)
    /\ e \in 1..Len(egr[r]) /\ egr[r][e].pc = "blocked"
    /\ socks[r][egr[r][e].conn].open
    /\ socks[r][egr[r][e].conn].deadline < 0 \/ now < socks[r][egr[r][e].conn].deadline
    /\ CanSpend("replies")
    /\ budget' = Spend("replies")
    /\ egr' = [egr EXCEPT ![r][e].pc = "reply",
                          ![r][e].seq = MaxReplies - budget.replies + 1]
    /\ UNCHANGED <<cfg, now, proc, rstate, targetConn, sessions, sessionsMu,
                   sess, socks, buffer, hcp, reaper, mon, fwd, rpl>>

\* Read returns a timeout error (the read deadline of the socket has passed)
\* or another error (the socket has been closed)
ReadFails(r, c) ==
    \/ ~socks[r][c].open
    \/ socks[r][c].deadline >= 0 /\ now >= socks[r][c].deadline

\* Read returns an error; r.closeSession(clientKey); return
EgCloseSession(r, e) ==
    /\ Running(r)
    /\ e \in 1..Len(egr[r]) /\ egr[r][e].pc = "blocked"
    /\ ReadFails(r, egr[r][e].conn)
    /\ SessionsMuFree(r)
    /\ socks' = [socks EXCEPT ![r] = CloseSessionSocks(r, egr[r][e].key)]
    /\ sessions' = [sessions EXCEPT ![r] = CloseSessionTable(r, egr[r][e].key)]
    /\ egr' = [egr EXCEPT ![r][e] = NoEgr]
    /\ UNCHANGED <<cfg, budget, now, proc, rstate, targetConn, sessionsMu,
                   sess, buffer, hcp, reaper, mon, fwd, rpl>>

\* a handleTargetResponses that returns when its Write to the client fails
EgOnWriteError_Return(r, e) == "done"

\* if err != nil { log.Printf("Error sending to client ...") }: the loop goes
\* on with the next Read
EgOnWriteError(r, e) == "read"

\* the rest of the iteration after a successful Read: lastActive is set under
\* session.mu, session.toClientConn.Write(buffer[:n]) (an error is logged, the
\* loop goes on), and the SetReadDeadline of the next iteration
EgRelay(r, e) ==
    /\ Running(r)
    /\ e \in 1..Len(egr[r]) /\ egr[r][e].pc = "reply"
    /\ SessionMuFree(r, egr[r][e].s)
    /\ sess' = [sess EXCEPT ![r][egr[r][e].s].lastActive = now]
    /\ \E io \in BOOLEAN :
         LET c == sess[r][egr[r][e].s].toClientConn IN
         /\ io => socks[r][c].open /\ CanSpend("ioFails")
         /\ budget' = IF io THEN Spend("ioFails") ELSE budget
         /\ rpl' = [rpl EXCEPT ![r] = Append(@,
                 [key |-> egr[r][e].key, s |-> egr[r][e].s, seq |-> egr[r][e].seq,
                  from |-> egr[r][e].conn, conn |-> c, open |-> socks[r][c].open,
                  ok |-> WriteOk(r, c, io)])]
         /\ egr' = [egr EXCEPT ![r][e].pc = IF WriteOk(r, c, io) THEN "read"
                                            ELSE EgOnWriteError(r, e),
                               ![r][e].conn = 0, ![r][e].seq = 0]
    /\ socks' = [socks EXCEPT ![r] = SetReadDeadline(@, sess[r][egr[r][e].s].toServerConn)]
    /\ UNCHANGED <<cfg, now, proc, rstate, targetConn, sessions, sessionsMu,
                   buffer, hcp, reaper, mon, fwd>>

(* --------------------------- cleanupSessions --------------------------- *)
\* a reaper that evicts a session as soon as it has been idle for the timeout
Expired_NonStrict(tnow, lastActive) == tnow - lastActive >= cfg.timeout

\* a reaper whose comparison is reversed
Expired_Reversed(tnow, lastActive) == lastActive - tnow > cfg.timeout

\* now.Sub(session.lastActive) > r.timeout
Expired(tnow, lastActive) == tnow - lastActive > cfg.timeout

\* a reaper that evicts every session as soon as one has expired
ExpiredKeys_All(r) ==
    IF \E k \in Keys : sessions[r][k] # 0 /\ Expired(now, sess[r][sessions[r][k]].lastActive)
    THEN {k \in Keys : sessions[r][k] # 0}
    ELSE {}

\* the sessions one sweep closes and deletes
ExpiredKeys(r) ==
    {k \in Keys : sessions[r][k] # 0 /\ Expired(now, sess[r][sessions[r][k]].lastActive)}

\* the sockets after Close() on both sockets of every session in ks
RECURSIVE CloseAll(_, _, _)
CloseAll(r, ss, ks) ==
    IF ks = {} THEN ss
    ELSE LET k == CHOOSE x \in ks : TRUE
             s == sess[r][sessions[r][k]]
         IN CloseAll(r, CloseSock(CloseSock(ss, s.toServerConn), s.toClientConn),
                     ks \ {k})

\* one tick of the ticker: now := time.Now(); under sessionsMu, and for each
\* session under its mu, an expired session has both sockets closed and its
\* entry deleted
ReaperSweep(r) ==
    /\ Running(r)
    /\ reaper[r].pc = "idle" /\ now >= reaper[r].next
    /\ SessionsMuFree(r)
    /\ socks' = [socks EXCEPT ![r] = CloseAll(r, @, ExpiredKeys(r))]
    /\ sessions' = [sessions EXCEPT ![r] =
                      [k \in Keys |-> IF k \in ExpiredKeys(r) THEN 0 ELSE @[k]]]
    /\ reaper' = [reaper EXCEPT ![r].next = @ + ReaperPeriod]
    /\ UNCHANGED <<cfg, budget, now, proc, rstate, targetConn, sessionsMu, sess,
                   buffer, hcp, egr, mon, fwd, rpl>>

(* ------------------------------ monitorDNS ----------------------------- *)
\* time.NewTicker(d) panics when d is not positive
NewTickerPanics(d) == d <= 0

\* monitorDNS starts: time.NewTicker(r.dnsCheckInterval). A panic in a
\* goroutine that nothing recovers ends the process.
MonInit(r) ==
    /\ Running(r)
    /\ mon[r].pc = "init"
    /\ IF NewTickerPanics(cfg.dnsCheckInterval)
       THEN proc' = "aborted" /\ UNCHANGED mon
       ELSE mon' = [mon EXCEPT ![r].pc = "wait"] /\ UNCHANGED proc
    /\ UNCHANGED <<cfg, budget, now, rstate, targetConn, sessions, sessionsMu, sess,
                   socks, buffer, hcp, egr, reaper, fwd, rpl>>

\* a comparison that finds every resolved address new
AddrChanged_Always(cur, new) == TRUE

\* !currentAddr.IP.Equal(newAddr.IP) || currentAddr.Port != newAddr.Port
AddrChanged(cur, new) == cur.ip # new.ip \/ cur.port # new.port

\* if err != nil { log; continue }: res = 0 stands for a failed resolution
ResolveErr_Ignored(res) == FALSE

ResolveErr(res) == res = 0

\* a store that is observable after the IP was written and before the port
StoreTarget_Torn(cur, new) == [ip |-> new.ip, port |-> 0]

\* targetConnMu.Lock(); r.targetConn = newAddr; targetConnMu.Unlock(): the
\* pointer to the resolved address replaces the previous one
StoreTarget(cur, new) == new

\* one tick of the ticker: ResolveUDPAddr fails (res = 0) and the loop
\* continues, or it returns an address; a changed address is installed as the
\* target and migrateSessionsToNewTarget is called
MonTick(r) ==
    /\ Running(r)
    /\ mon[r].pc = "wait"
    /\ CanSpend("dns")
    /\ budget' = Spend("dns")
    /\ \E res \in 0..NumIPs :
         LET newAddr == ResolveUDPAddr(res) IN
         IF ResolveErr(res)
         THEN /\ mon' = [mon EXCEPT ![r].ticks = @ + 1, ![r].err = (res = 0),
                                    ![r].res = res]
              /\ UNCHANGED targetConn
         ELSE IF AddrChanged(targetConn[r], newAddr)
         THEN /\ targetConn' = [targetConn EXCEPT ![r] = StoreTarget(@, newAddr)]
              /\ mon' = [mon EXCEPT ![r].pc = "migrate", ![r].newAddr = newAddr,
                                    ![r].ticks = @ + 1, ![r].err = (res = 0),
                                    ![r].res = res, ![r].changes = @ + 1]
         ELSE /\ mon' = [mon EXCEPT ![r].ticks = @ + 1, ![r].err = (res = 0),
                                    ![r].res = res]
              /\ UNCHANGED targetConn
    /\ UNCHANGED <<cfg, now, proc, rstate, sessions, sessionsMu, sess,
                   socks, buffer, hcp, egr, reaper, fwd, rpl>>

(* --------------------- migrateSessionsToNewTarget ---------------------- *)
\* a sweep that visits no session
SweepKeys_None(r) == {}

\* for clientKey, session := range r.sessions: the keys the sweep visits
SweepKeys(r) == {k \in Keys : sessions[r][k] # 0}

\* r.sessionsMu.Lock(); the range over the table starts
MigrateLock(r) ==
    /\ Running(r)
    /\ mon[r].pc = "migrate"
    /\ SessionsMuFree(r)
    /\ sessionsMu' = [sessionsMu EXCEPT ![r] = Holder("mon", 0)]
    /\ mon' = [mon EXCEPT ![r].pc = "sweep", ![r].failed = {}, ![r].migrated = {},
                          ![r].sweeps = @ + 1,
                          ![r].left = SweepKeys(r)]
    /\ UNCHANGED <<cfg, budget, now, proc, rstate, targetConn, sessions, sess, socks,
                   buffer, hcp, egr, reaper, fwd, rpl>>

\* one iteration, first half: session.mu.Lock(); oldConn.Close()
MigrateClose(r, k) ==
    /\ Running(r)
    /\ mon[r].pc = "sweep" /\ mon[r].cur = 0 /\ k \in mon[r].left
    /\ SessionMuFree(r, sessions[r][k])
    /\ LET s == sessions[r][k] IN
         /\ socks' = [socks EXCEPT ![r] = CloseSock(@, sess[r][s].toServerConn)]
         /\ sess' = [sess EXCEPT ![r][s].mu = Holder("mon", 0)]
    /\ mon' = [mon EXCEPT ![r].cur = k]
    /\ UNCHANGED <<cfg, budget, now, proc, rstate, targetConn, sessions, sessionsMu,
                   buffer, hcp, egr, reaper, fwd, rpl>>

\* a sweep that also refreshes lastActive of the session it re-homes
Rehomed_Touched(se, c) ==
    [se EXCEPT !.toServerConn = c, !.mu = Free, !.gen = @ + 1, !.lastActive = now + 1]

\* session.toServerConn = newConn; session.mu.Unlock(): the session object
\* after its re-homing (gen counts the re-homings)
Rehomed(se, c) == [se EXCEPT !.toServerConn = c, !.mu = Free, !.gen = @ + 1]

\* second half, DialUDP succeeds: the new socket is installed, session.mu
\* released and a handleTargetResponses goroutine started for the session
MigrateSession(r, k) ==
    /\ Running(r)
    /\ mon[r].pc = "sweep" /\ mon[r].cur = k /\ k # 0
    /\ LET s == sessions[r][k]
           c == Len(socks[r]) + 1
       IN /\ socks' = [socks EXCEPT ![r] =
                         SetReadDeadline(Append(@, NewSock("srv", mon[r].newAddr, k)), c)]
          /\ sess' = [sess EXCEPT ![r][s] = Rehomed(@, c)]
          /\ egr' = [egr EXCEPT ![r] = Append(@, NewEgr(k, s, sess[r][s].gen + 1))]
    /\ mon' = [mon EXCEPT ![r].left = @ \ {k}, ![r].cur = 0,
                          ![r].migrated = @ \cup {k}]
    /\ UNCHANGED <<cfg, budget, now, proc, rstate, targetConn, sessions, sessionsMu,
                   buffer, hcp, reaper, fwd, rpl>>

\* a failure path that leaves the client-facing socket open
MigrateFailSocks_Leaked(r, s) == socks[r]

\* session.toClientConn.Close() on the failure path of the sweep
MigrateFailSocks(r, s) == CloseSock(socks[r], sess[r][s].toClientConn)

\* second half, DialUDP fails: the client-facing socket is closed, the entry
\* deleted, session.mu released
MigrateDialError(r, k) ==
    /\ Running(r)
    /\ mon[r].pc = "sweep" /\ mon[r].cur = k /\ k # 0
    /\ CanSpend("dialFails")
    /\ budget' = Spend("dialFails")
    /\ LET s == sessions[r][k] IN
         /\ socks' = [socks EXCEPT ![r] = MigrateFailSocks(r, s)]
         /\ sessions' = [sessions EXCEPT ![r][k] = 0]
         /\ sess' = [sess EXCEPT ![r][s].mu = Free]
    /\ mon' = [mon EXCEPT ![r].left = @ \ {k}, ![r].cur = 0,
                          ![r].failed = @ \cup {k}]
    /\ UNCHANGED <<cfg, now, proc, rstate, targetConn, sessionsMu,
                   buffer, hcp, egr, reaper, fwd, rpl>>

\* the range is over: the deferred r.sessionsMu.Unlock(), back to the ticker
MigrateDone(r) ==
    /\ Running(r)
    /\ mon[r].pc = "sweep" /\ mon[r].left = {} /\ mon[r].cur = 0
    /\ sessionsMu' = [sessionsMu EXCEPT ![r] = Free]
    /\ mon' = [mon EXCEPT ![r].pc = "wait", ![r].newAddr = NoAddr]
    /\ UNCHANGED <<cfg, budget, now, proc, rstate, targetConn, sessions, sess, socks,
                   buffer, hcp, egr, reaper, fwd, rpl>>

(* -------------------------------- time --------------------------------- *)
\* every goroutine of the port is waiting: for a datagram, for a ticker, or
\* inside Read on a backend socket; the ticker of cleanupSessions is not due
Quiescent(r) ==
    /\ \A t \in 1..Len(hcp[r]) : hcp[r][t].pc = "done"
    /\ \A e \in 1..Len(egr[r]) : egr[r][e].pc \in {"blocked", "done"}
    /\ mon[r].pc = "wait"
    /\ reaper[r].next > now

\* the clock advances by one unit (the period of the cleanupSessions ticker).
\* The steps of the goroutines take no time on this scale: the clock moves
\* only when none of them has a step to take; a Read whose deadline has
\* passed may still return late.
Tick ==
    /\ proc = "running"
    /\ now < MaxTime
    /\ \A r \in AllPorts : rstate[r] = "running" => Quiescent(r)
    /\ now' = now + 1
    /\ UNCHANGED <<cfg, budget, proc, rstate, targetConn, sessions, sessionsMu, sess,
                   socks, buffer, hcp, egr, reaper, mon, fwd, rpl>>

(* ------------------------------ Next ----------------------------------- *)
Next ==
    \/ Tick
    \/ \E r \in AllPorts :
         \/ StartResolveError(r)
         \/ StartListenError(r)
         \/ Start(r)
         \/ IngressRead(r)
         \/ MonInit(r)
         \/ MonTick(r)
         \/ MigrateLock(r)
         \/ MigrateDone(r)
         \/ ReaperSweep(r)
         \/ \E k \in Keys :
              \/ MigrateClose(r, k)
              \/ MigrateSession(r, k)
              \/ MigrateDialError(r, k)
         \/ \E t \in 1..MaxPkts :
              \/ HcpLock(r, t)
              \/ HcpDialServerError(r, t)
              \/ HcpDialClientError(r, t)
              \/ HcpCreate(r, t)
              \/ HcpTouch(r, t)
              \/ HcpWrite(r, t)
         \/ \E e \in EgrIds :
              \/ EgRead(r, e)
              \/ EgReadData(r, e)
              \/ EgCloseSession(r, e)
              \/ EgRelay(r, e)

Spec == Init /\ [][Next]_vars

\* longer runs of two scenarios: two clients, a DNS change and a failing
\* DialUDP with a silent backend; one client, a DNS change and two replies
InitDeep ==
    /\ cfg = [ports |-> {1}, dnsCheckInterval |-> 1, timeout |-> Timeout,
              bufferSize |-> BufferSize]
    /\ budget \in {[events |-> DeepEvents, pkts |-> 2, replies |-> 0,
                    dns |-> 1, dialFails |-> 1, ioFails |-> 0],
                   [events |-> DeepEvents, pkts |-> 1, replies |-> MaxReplies,
                    dns |-> 1, dialFails |-> 1, ioFails |-> 0]}
    /\ InitRelays

SpecDeep == InitDeep /\ [][Next]_vars

\* main with several listen ports and any -dns-check value, zero included
InitMain ==
    /\ \E d \in {0, 1} :
         cfg = [ports |-> AllPorts, dnsCheckInterval |-> d, timeout |-> Timeout,
                bufferSize |-> BufferSize]
    /\ budget = [events |-> MaxEvents, pkts |-> 1, replies |-> 1,
                 dns |-> MaxDnsTicks, dialFails |-> MaxDialFails, ioFails |-> 0]
    /\ InitRelays

SpecMain == InitMain /\ [][Next]_vars

(* ======================= properties of the relay ======================= *)
SessIds(r) == 1..Len(sess[r])

\* session object s is the entry of its client key
InTable(r, s) == sessions[r][sess[r][s].clientAddr] = s

\* one of the two sockets of session object s is open
SessionOpen(r, s) ==
    socks[r][sess[r][s].toServerConn].open \/ socks[r][sess[r][s].toClientConn].open

SessionClosed(r, s) ==
    ~socks[r][sess[r][s].toServerConn].open /\ ~socks[r][sess[r][s].toClientConn].open

\* neither the reaper's test nor the read deadline of the session's backend
\* socket can have fired on session s
NoTimeout(r, s) ==
    /\ now - sess[r][s].lastActive <= cfg.timeout
    /\ now < socks[r][sess[r][s].toServerConn].deadline

\* C1 (Uniqueness): per client key at most one session object exists (has an
\* open socket) at any time, it is the one the table holds, one
\* handleTargetResponses goroutine was started for the backend socket dialed at
\* its creation, and every handleClientPacket call that is past the lookup
\* works on the table's session of its own key.
C1_Uniqueness ==
    \A r \in AllPorts, k \in Keys :
      /\ Cardinality({s \in SessIds(r) :
                        sess[r][s].clientAddr = k /\ SessionOpen(r, s)}) <= 1
      /\ \A s \in SessIds(r) :
           sess[r][s].clientAddr = k /\ SessionOpen(r, s) => sessions[r][k] = s
      /\ Cardinality({c \in 1..Len(socks[r]) :
                        /\ socks[r][c].kind = "srv" /\ socks[r][c].peer = k
                        /\ socks[r][c].open}) <= 1
      /\ Cardinality({e \in 1..Len(egr[r]) :
                        /\ egr[r][e].pc # "done" /\ egr[r][e].key = k
                        /\ egr[r][e].gen = 0 /\ SessionOpen(r, egr[r][e].s)}) <= 1
      /\ \A t \in 1..Len(hcp[r]) :
           hcp[r][t].pc \in {"touch", "write"} /\ hcp[r][t].key = k =>
             /\ sess[r][hcp[r][t].s].clientAddr = k
             /\ SessionOpen(r, hcp[r][t].s) => sessions[r][k] = hcp[r][t].s

\* two calls for the same client run at once: the one that created the
\* session has not yet gone past its lastActive update, the other one already
\* holds the same session
C1_Witness ==
    \E t1 \in 1..Len(hcp[1]), t2 \in 1..Len(hcp[1]) :
      /\ t1 # t2 /\ hcp[1][t1].key = hcp[1][t2].key
      /\ hcp[1][t1].pc = "touch" /\ hcp[1][t2].pc \in {"touch", "write"}
      /\ hcp[1][t1].s = hcp[1][t2].s
      /\ sess[1][hcp[1][t1].s].by = t1
      /\ InTable(1, hcp[1][t1].s)

\* C2 (Migration transparency), as claimed: a session that was re-homed by a
\* completed migration sweep is still the entry of its client key, with a
\* backend socket directed at the new target, as long as no timeout can have
\* fired on it.
C2_MigratedSessionStays ==
    \A r \in AllPorts : \A s \in SessIds(r) :
      (/\ sess[r][s].gen >= 1
       /\ mon[r].pc = "wait" /\ mon[r].failed = {}
       /\ NoTimeout(r, s))
      => /\ InTable(r, s)
         /\ socks[r][sess[r][s].toServerConn].open
         /\ socks[r][sess[r][s].toServerConn].addr = targetConn[r]

\* every handleTargetResponses goroutine started before the last sweep has
\* returned
OldPumpsDone(r) ==
    \A e \in 1..Len(egr[r]) :
      egr[r][e].pc # "done" =>
        /\ egr[r][e].gen = sess[r][egr[r][e].s].gen
        /\ sess[r][egr[r][e].s].clientAddr \notin mon[r].failed

\* C3 (Partial-migration resilience), as claimed: after a sweep in which one
\* DialUDP failed, once the goroutines started before the sweep have reacted,
\* every session the sweep re-homed is still in the table with an open backend
\* socket directed at the new target, and the failed one is absent.
C3_OnlyFailedSessionGone ==
    \A r \in AllPorts :
      (/\ mon[r].pc = "wait" /\ mon[r].failed # {} /\ mon[r].migrated # {}
       /\ OldPumpsDone(r)
       /\ now = 0)
      => /\ \A k \in mon[r].failed : sessions[r][k] = 0
         /\ \A k \in mon[r].migrated :
              /\ sessions[r][k] # 0
              /\ socks[r][sess[r][sessions[r][k]].toServerConn].open
              /\ socks[r][sess[r][sessions[r][k]].toServerConn].addr = targetConn[r]

\* C4 (Idle eviction): a session still in the table was active within the
\* timeout at the last tick of the reaper, hence is never idle for more than
\* the timeout plus one reaper period; a session object that is no longer in
\* the table has both sockets closed; no two session objects share a socket,
\* so the session a later datagram creates has newly dialed sockets.
C4_IdleEviction ==
    \A r \in AllPorts :
      /\ \A s \in SessIds(r) :
           /\ (InTable(r, s) /\ reaper[r].next > now) =>
                (reaper[r].next - ReaperPeriod) - sess[r][s].lastActive <= cfg.timeout
           /\ InTable(r, s) => now - sess[r][s].lastActive <= cfg.timeout + ReaperPeriod
           /\ ~InTable(r, s) => SessionClosed(r, s)
      /\ \A s1 \in SessIds(r), s2 \in SessIds(r) :
           s1 # s2 =>
             {sess[r][s1].toServerConn, sess[r][s1].toClientConn} \cap
             {sess[r][s2].toServerConn, sess[r][s2].toClientConn} = {}

\* the reaper has removed an idle session whose own goroutine is still inside
\* Read, and a later datagram of the same client has created a new one
C4_Witness ==
    \E s1 \in SessIds(1), s2 \in SessIds(1) :
      /\ sess[1][s1].clientAddr = sess[1][s2].clientAddr
      /\ ~InTable(1, s1) /\ SessionClosed(1, s1)
      /\ now - sess[1][s1].lastActive > cfg.timeout
      /\ \E e \in 1..Len(egr[1]) : egr[1][e].s = s1 /\ egr[1][e].pc = "blocked"
      /\ mon[1].ticks = 0
      /\ InTable(1, s2) /\ ~SessionClosed(1, s2)

\* C5 (Per-session forward ordering), as claimed: the datagrams of one client
\* that are forwarded are written to the backend in the order in which the
\* ingress loop read them.
C5_ForwardOrder ==
    \A r \in AllPorts : \A i \in 1..Len(fwd[r]), j \in 1..Len(fwd[r]) :
      (i < j /\ fwd[r][i].key = fwd[r][j].key /\ fwd[r][i].ok /\ fwd[r][j].ok)
      => fwd[r][i].seq < fwd[r][j].seq

\* C6 (Per-session reply ordering), as claimed: the replies that arrive on one
\* backend socket of a session and are relayed are written to the client in
\* the order of their arrival.
C6_ReplyOrder ==
    \A r \in AllPorts : \A i \in 1..Len(rpl[r]), j \in 1..Len(rpl[r]) :
      (/\ i < j /\ rpl[r][i].s = rpl[r][j].s /\ rpl[r][i].from = rpl[r][j].from
       /\ rpl[r][i].ok /\ rpl[r][j].ok)
      => rpl[r][i].seq < rpl[r][j].seq

\* C7 (Forwarding fidelity, main.go): the bytes every handleClientPacket call
\* holds, and the bytes every Write on a backend socket was given, are the n
\* bytes ReadFromUDP returned for that datagram.
C7_ForwardFidelity ==
    \A r \in AllPorts :
      /\ \A t \in 1..Len(hcp[r]) :
           hcp[r][t].pc # "done" => HandlerData(r, t) = hcp[r][t].orig
      /\ \A i \in 1..Len(fwd[r]) :
           /\ fwd[r][i].data = fwd[r][i].orig
           /\ Len(fwd[r][i].data) <= cfg.bufferSize

\* a datagram is forwarded after the ingress loop has read a later one into
\* its buffer
C7_Witness ==
    \E i \in 1..Len(fwd[1]) :
      /\ fwd[1][i].ok /\ fwd[1][i].seq < fwd[1][i].nread
      /\ buffer[1][1] # fwd[1][i].data[1]

\* C8 (zero re-resolution interval), as claimed: with -dns-check 0 the relay
\* keeps running and the process does not abort.
C8_ZeroIntervalKeepsRunning ==
    cfg.dnsCheckInterval = 0 =>
      /\ proc = "running"
      /\ \A r \in AllPorts : targetConn[r] \in {NoAddr, ResolveUDPAddr(1)}

\* C9 (failed re-resolution): a tick of monitorDNS on which ResolveUDPAddr
\* fails leaves the target, the table, the sessions and their sockets and the
\* goroutines as they are, and the monitor waits for the next tick.
C9_FailedResolveKeepsState ==
    [][\A r \in AllPorts :
         (mon'[r].ticks = mon[r].ticks + 1 /\ mon'[r].err) =>
           /\ targetConn'[r] = targetConn[r]
           /\ sessions'[r] = sessions[r]
           /\ sess'[r] = sess[r]
           /\ socks'[r] = socks[r]
           /\ egr'[r] = egr[r]
           /\ mon'[r].pc = "wait"
           /\ proc' = proc]_vars

\* a resolution has failed while a session is in the table
C9_Witness ==
    /\ mon[1].err /\ mon[1].pc = "wait" /\ proc = "running"
    /\ \E k \in Keys : sessions[1][k] # 0 /\ ~SessionClosed(1, sessions[1][k])
    /\ targetConn[1] = ResolveUDPAddr(1)

\* everything that belongs to the Relay of port q
PortState(q) ==
    <<rstate[q], targetConn[q], sessions[q], sessionsMu[q], sess[q], socks[q],
      buffer[q], hcp[q], egr[q], reaper[q], mon[q], fwd[q], rpl[q]>>

\* C10 (startup failures): a Relay whose Start returned an error has started
\* no monitor, no reaper and no ingress loop and has no session; the step in
\* which its Start fails changes nothing of any other Relay and does not end
\* the process.
C10_StartFailureIsLocal ==
    /\ [](\A r \in AllPorts :
            rstate[r] = "failed" =>
              /\ mon[r] = NoMon /\ reaper[r] = NoReaper
              /\ hcp[r] = <<>> /\ egr[r] = <<>>
              /\ sess[r] = <<>> /\ socks[r] = <<>>
              /\ \A k \in Keys : sessions[r][k] = 0)
    /\ [][\A r \in AllPorts :
            (rstate[r] = "new" /\ rstate'[r] = "failed") =>
              /\ proc' = proc
              /\ \A q \in AllPorts \ {r} : PortState(q)' = PortState(q)]_vars

\* one Relay has failed to start while another one forwards for a client
C10_Witness ==
    \E r \in AllPorts, q \in AllPorts :
      /\ rstate[r] = "failed" /\ rstate[q] = "running" /\ proc = "running"
      /\ \E i \in 1..Len(fwd[q]) : fwd[q][i].ok

\* C11 (failed dial in handleClientPacket): the step in which a call that found
\* no entry returns because one of its two DialUDP calls failed inserts
\* nothing into the table, allocates no session, starts no goroutine, writes
\* nothing to a backend, leaves every existing socket as it is, leaves the
\* sockets it has dialed itself closed, and releases sessionsMu.
C11_FailedDialChangesNothing ==
    [][\A r \in AllPorts : \A t \in 1..Len(hcp[r]) :
         (hcp[r][t].pc = "create" /\ hcp'[r][t].pc = "done") =>
           /\ sessions'[r] = sessions[r]
           /\ sess'[r] = sess[r]
           /\ egr'[r] = egr[r]
           /\ fwd'[r] = fwd[r] /\ rpl'[r] = rpl[r]
           /\ sessionsMu[r] = Holder("hcp", t) /\ sessionsMu'[r] = Free
           /\ Len(socks'[r]) >= Len(socks[r])
           /\ \A c \in 1..Len(socks'[r]) :
                IF c <= Len(socks[r]) THEN socks'[r][c] = socks[r][c]
                ELSE ~socks'[r][c].open /\ socks'[r][c].closes = 1]_vars

\* the second DialUDP of a first datagram has failed: the backend socket of
\* the attempt is closed and belongs to no session, the client has no entry
\* and its datagram was not forwarded
C11_Witness ==
    /\ mon[1].ticks = 0 /\ sessionsMu[1] = Free
    /\ \E c \in 1..Len(socks[1]) :
         /\ socks[1][c].kind = "srv" /\ ~socks[1][c].open /\ socks[1][c].closes = 1
         /\ \A s \in SessIds(1) : sess[1][s].toServerConn # c
         /\ sessions[1][socks[1][c].peer] = 0
         /\ \E t \in 1..Len(hcp[1]) :
              /\ hcp[1][t].pc = "done" /\ hcp[1][t].key = socks[1][c].peer
              /\ \A i \in 1..Len(fwd[1]) : fwd[1][i].seq # t

\* C12 (failed forward): the step in which the Write of handleClientPacket on
\* the backend socket returns an error changes neither the table nor any
\* session object nor any socket nor any handleTargetResponses goroutine: a
\* session that was in the table with open sockets and a live goroutine still
\* is; the call returns.
C12_FailedForwardKeepsSession ==
    [][\A r \in AllPorts :
         (Len(fwd'[r]) = Len(fwd[r]) + 1 /\ ~fwd'[r][Len(fwd'[r])].ok) =>
           /\ sessions'[r] = sessions[r]
           /\ sess'[r] = sess[r]
           /\ socks'[r] = socks[r]
           /\ egr'[r] = egr[r]
           /\ sessionsMu'[r] = sessionsMu[r]
           /\ hcp'[r][fwd'[r][Len(fwd'[r])].seq].pc = "done"]_vars

\* a Write to the backend has failed on an open socket; the session is in the
\* table with both sockets open and its goroutine inside Read
C12_Witness ==
    \E i \in 1..Len(fwd[1]) :
      /\ ~fwd[1][i].ok /\ fwd[1][i].open
      /\ InTable(1, fwd[1][i].s)
      /\ sess[1][fwd[1][i].s].toServerConn = fwd[1][i].conn
      /\ socks[1][fwd[1][i].conn].open
      /\ socks[1][sess[1][fwd[1][i].s].toClientConn].open
      /\ \E e \in 1..Len(egr[1]) :
           egr[1][e].s = fwd[1][i].s /\ egr[1][e].pc = "blocked"

\* C13 (failed relay of a reply): the step in which the Write of
\* handleTargetResponses on the client-facing socket returns an error leaves
\* the table, the sockets of every session and the open/closed state of every
\* socket as they are, and the goroutine goes on to the next Read of its
\* session.
C13_FailedReplyKeepsSession ==
    [][\A r \in AllPorts :
         (Len(rpl'[r]) = Len(rpl[r]) + 1 /\ ~rpl'[r][Len(rpl'[r])].ok) =>
           /\ sessions'[r] = sessions[r]
           /\ Len(sess'[r]) = Len(sess[r]) /\ Len(socks'[r]) = Len(socks[r])
           /\ \A s \in SessIds(r) :
                /\ sess'[r][s].toServerConn = sess[r][s].toServerConn
                /\ sess'[r][s].toClientConn = sess[r][s].toClientConn
           /\ \A c \in 1..Len(socks[r]) :
                /\ socks'[r][c].open = socks[r][c].open
                /\ socks'[r][c].closes = socks[r][c].closes
           /\ Len(egr'[r]) = Len(egr[r])
           /\ \A e \in 1..Len(egr[r]) :
                IF egr[r][e].pc = "reply" /\ egr'[r][e] # egr[r][e]
                THEN /\ egr'[r][e].pc = "read"
                     /\ egr'[r][e].s = egr[r][e].s /\ egr'[r][e].key = egr[r][e].key
                ELSE egr'[r][e] = egr[r][e]]_vars

\* a Write to the client has failed on an open socket and the goroutine is
\* back inside Read on the backend socket of its session, which is in the
\* table
C13_Witness ==
    \E i \in 1..Len(rpl[1]) :
      /\ ~rpl[1][i].ok /\ rpl[1][i].open
      /\ InTable(1, rpl[1][i].s)
      /\ socks[1][rpl[1][i].conn].open
      /\ \E e \in 1..Len(egr[1]) :
           /\ egr[1][e].s = rpl[1][i].s /\ egr[1][e].pc = "blocked"
           /\ egr[1][e].conn = rpl[1][i].from
           /\ egr[1][e].conn = sess[1][rpl[1][i].s].toServerConn
           /\ socks[1][egr[1][e].conn].open

\* a handleTargetResponses goroutine of session s is about to read, or is
\* inside Read on, the backend socket the session holds now
LiveEgress(r, s) ==
    \E e \in 1..Len(egr[r]) :
      /\ egr[r][e].s = s
      /\ \/ egr[r][e].pc \in {"read", "reply"}
         \/ egr[r][e].pc = "blocked" /\ egr[r][e].conn = sess[r][s].toServerConn

\* C14 (table/socket liveness): whenever nobody holds sessionsMu, a session
\* object is the table's entry of its key exactly if both of its sockets are
\* open and a handleTargetResponses goroutine reads (or is about to read) its
\* current backend socket; a session out of the table has no open socket, and
\* every open socket is a socket of a session in the table.
C14_TableSocketLiveness ==
    \A r \in AllPorts :
      SessionsMuFree(r) =>
        /\ \A s \in SessIds(r) :
             /\ InTable(r, s) <=>
                  /\ socks[r][sess[r][s].toServerConn].open
                  /\ socks[r][sess[r][s].toClientConn].open
                  /\ LiveEgress(r, s)
             /\ ~InTable(r, s) => SessionClosed(r, s)
        /\ \A c \in 1..Len(socks[r]) :
             socks[r][c].open =>
               \E s \in SessIds(r) :
                 InTable(r, s) /\ c \in {sess[r][s].toServerConn, sess[r][s].toClientConn}

\* nobody holds sessionsMu; a session re-homed by a sweep is in the table, the
\* goroutine the sweep started is inside Read on its new socket and its old
\* socket is closed; the session of another client has been torn down
C14_Witness ==
    /\ SessionsMuFree(1) /\ mon[1].pc = "wait"
    /\ \E s \in SessIds(1), s2 \in SessIds(1) :
         /\ InTable(1, s) /\ sess[1][s].gen >= 1
         /\ \E e \in 1..Len(egr[1]) :
              /\ egr[1][e].s = s /\ egr[1][e].gen = sess[1][s].gen
              /\ egr[1][e].pc = "blocked"
              /\ egr[1][e].conn = sess[1][s].toServerConn
         /\ \E c \in 1..Len(socks[1]) :
              socks[1][c].peer = sess[1][s].clientAddr /\ ~socks[1][c].open
         /\ sess[1][s2].clientAddr # sess[1][s].clientAddr
         /\ ~InTable(1, s2) /\ SessionClosed(1, s2)

\* socket c is one of the two sockets of a session that is in the table
OwnedByTable(r, c) ==
    \E s \in SessIds(r) :
      InTable(r, s) /\ c \in {sess[r][s].toServerConn, sess[r][s].toClientConn}

\* C15 (teardown happens once): no socket is ever closed twice, whichever of
\* the reaper, closeSession after a Read error or timeout, and the failure
\* path of the migration sweep act on its session and in whatever order; a
\* socket that is no longer held by a session in the table has been closed
\* exactly once; a step that takes a session out of the table leaves both of
\* its sockets closed once, and a session taken out never comes back.
C15_TeardownOnce ==
    /\ [](\A r \in AllPorts : \A c \in 1..Len(socks[r]) :
            /\ socks[r][c].closes <= 1
            /\ socks[r][c].open <=> socks[r][c].closes = 0
            /\ (SessionsMuFree(r) /\ ~OwnedByTable(r, c)) => socks[r][c].closes = 1)
    /\ [][\A r \in AllPorts : \A k \in Keys :
            /\ (sessions[r][k] # 0 /\ sessions'[r][k] # sessions[r][k]) =>
                 /\ sessions'[r][k] = 0
                 /\ socks'[r][sess[r][sessions[r][k]].toServerConn].closes = 1
                 /\ socks'[r][sess[r][sessions[r][k]].toClientConn].closes = 1
            /\ (sessions[r][k] = 0 /\ sessions'[r][k] # 0) =>
                 sessions'[r][k] = Len(sess[r]) + 1]_vars

\* the sweep failed to re-home a session and tore it down; afterwards the
\* session's own goroutine got its Read error and ran closeSession as well:
\* each socket of the session was closed once
C15_Witness ==
    /\ mon[1].pc = "wait" /\ SessionsMuFree(1)
    /\ \E s \in SessIds(1) :
         /\ sess[1][s].clientAddr \in mon[1].failed
         /\ ~InTable(1, s)
         /\ socks[1][sess[1][s].toServerConn].closes = 1
         /\ socks[1][sess[1][s].toClientConn].closes = 1
         /\ \A e \in 1..Len(egr[1]) : egr[1][e].pc = "done"
         /\ Len(egr[1]) >= 1

\* C16 (closeSession is idempotent): in every reachable state and for every
\* key k, closeSession(k) applied twice gives the table and the sockets that
\* one application gives, and applied to a key that is not in the table it
\* gives back the table and the sockets unchanged; the step of a goroutine
\* that calls closeSession for a key without entry changes neither.
C16_CloseSessionIdempotent ==
    /\ [](\A r \in AllPorts : \A k \in Keys :
            LET once == CloseSession(sessions[r], socks[r], sess[r], k)
                twice == CloseSession(once.tab, once.socks, sess[r], k)
            IN /\ twice = once
               /\ once.tab[k] = 0
               /\ sessions[r][k] = 0 =>
                    once = [tab |-> sessions[r], socks |-> socks[r]])
    /\ [][\A r \in AllPorts : \A e \in 1..Len(egr[r]) :
            (/\ egr[r][e].pc = "blocked" /\ egr'[r][e].pc = "done"
             /\ sessions[r][egr[r][e].key] = 0)
            => sessions'[r] = sessions[r] /\ socks'[r] = socks[r]]_vars

\* closeSession ran twice for the only session of a port: the goroutine the
\* session was created with and the one a sweep started have both returned
C16_Witness ==
    /\ Len(sess[1]) = 1 /\ Len(egr[1]) = 2
    /\ sess[1][1].gen = 1 /\ mon[1].failed = {}
    /\ ~InTable(1, 1) /\ SessionClosed(1, 1)
    /\ \A e \in 1..Len(egr[1]) : egr[1][e].pc = "done"

\* C17 (no write to a torn-down socket), as claimed: every Write that
\* handleClientPacket issues on a backend socket and every Write that
\* handleTargetResponses issues on a client-facing socket finds the socket
\* open, and no goroutine is about to update or write a session that has been
\* removed from the table with its sockets closed.
C17_NoWriteToClosedSocket ==
    \A r \in AllPorts :
      /\ \A i \in 1..Len(fwd[r]) : fwd[r][i].open
      /\ \A i \in 1..Len(rpl[r]) : rpl[r][i].open
      /\ \A t \in 1..Len(hcp[r]) :
           hcp[r][t].pc \in {"touch", "write"} =>
             InTable(r, hcp[r][t].s) \/ ~SessionClosed(r, hcp[r][t].s)
      /\ \A e \in 1..Len(egr[r]) :
           egr[r][e].pc = "reply" =>
             InTable(r, egr[r][e].s) \/ ~SessionClosed(r, egr[r][e].s)

\* the handleTargetResponses goroutines of session s that have not returned
Pumps(r, s) == {e \in 1..Len(egr[r]) : egr[r][e].pc # "done" /\ egr[r][e].s = s}

\* C18 (the old goroutine retires on its own), as claimed: no two
\* handleTargetResponses goroutines are inside Read on the same open backend
\* socket; and once the goroutines a re-homed session had before the sweep
\* have returned, the session (no timeout having fired on it) is still in the
\* table and the goroutine the sweep started is its only reader.
C18_OldPumpExitsAlone ==
    \A r \in AllPorts :
      /\ \A e1 \in 1..Len(egr[r]), e2 \in 1..Len(egr[r]) :
           (/\ e1 # e2 /\ egr[r][e1].pc = "blocked" /\ egr[r][e2].pc = "blocked"
            /\ egr[r][e1].conn = egr[r][e2].conn)
           => ~socks[r][egr[r][e1].conn].open
      /\ \A s \in SessIds(r) :
           (/\ sess[r][s].gen >= 1 /\ mon[r].pc = "wait"
            /\ sess[r][s].clientAddr \notin mon[r].failed
            /\ \A e \in Pumps(r, s) : egr[r][e].gen = sess[r][s].gen
            /\ NoTimeout(r, s))
           => /\ InTable(r, s)
              /\ Cardinality(Pumps(r, s)) = 1

\* monitorDNS is between its update of the target and the end of
\* migrateSessionsToNewTarget
SweepPending(r) == mon[r].pc \in {"migrate", "sweep"}

\* C19 (sessions follow the target): a handleClientPacket that reads the
\* target reads the address installed last and dials it; whenever no sweep is
\* pending or in progress, every session in the table has its backend socket
\* directed at the current target, and a creating call that holds an older
\* address than the current one exists only while a sweep is pending.
C19_SessionsFollowTarget ==
    /\ [](\A r \in AllPorts :
            /\ ~SweepPending(r) =>
                 \A s \in SessIds(r) :
                   InTable(r, s) =>
                     socks[r][sess[r][s].toServerConn].addr = targetConn[r]
            /\ \A t \in 1..Len(hcp[r]) :
                 (hcp[r][t].pc = "create" /\ hcp[r][t].target # targetConn[r])
                 => mon[r].pc = "migrate")
    /\ [][\A r \in AllPorts : \A t \in 1..Len(hcp[r]) :
            /\ (hcp[r][t].pc = "lock" /\ hcp'[r][t].pc = "create") =>
                 hcp'[r][t].target = targetConn[r]
            /\ (hcp[r][t].pc = "create" /\ hcp'[r][t].pc = "touch") =>
                 socks'[r][sess'[r][hcp'[r][t].s].toServerConn].addr = hcp[r][t].target]_vars

\* after a change of the target and the sweep, the table holds a session that
\* the sweep re-homed and a session created since, both directed at the new
\* target
C19_Witness ==
    /\ mon[1].pc = "wait" /\ targetConn[1] # ResolveUDPAddr(1)
    /\ \E s1 \in SessIds(1), s2 \in SessIds(1) :
         /\ InTable(1, s1) /\ sess[1][s1].gen = 1
         /\ InTable(1, s2) /\ sess[1][s2].gen = 0
         /\ socks[1][sess[1][s1].toServerConn].addr = targetConn[1]
         /\ socks[1][sess[1][s2].toServerConn].addr = targetConn[1]
         /\ \E c \in 1..Len(socks[1]) :
              /\ socks[1][c].peer = sess[1][s1].clientAddr /\ socks[1][c].kind = "srv"
              /\ socks[1][c].addr = ResolveUDPAddr(1) /\ ~socks[1][c].open

\* the addresses ResolveUDPAddr can return, each as a whole
Resolved == {ResolveUDPAddr(i) : i \in IPs}

\* C20 (the target has one writer and is never seen torn): the target of a
\* Relay is unset before Start and afterwards always one of the resolved
\* addresses as a whole; what a handleClientPacket has read and what any
\* backend socket was dialed to is such an address; after the assignment in
\* Start the target changes only in the step of monitorDNS that detected a
\* change, and becomes the address that step resolved.
C20_TargetWholeSingleWriter ==
    /\ [](\A r \in AllPorts :
            /\ targetConn[r] \in Resolved \cup {NoAddr}
            /\ rstate[r] = "running" => targetConn[r] \in Resolved
            /\ \A t \in 1..Len(hcp[r]) :
                 hcp[r][t].pc = "create" => hcp[r][t].target \in Resolved
            /\ \A c \in 1..Len(socks[r]) :
                 socks[r][c].kind = "srv" => socks[r][c].addr \in Resolved)
    /\ [][\A r \in AllPorts :
            /\ targetConn'[r] # targetConn[r] =>
                 \/ rstate[r] = "new" /\ targetConn[r] = NoAddr
                 \/ /\ mon[r].pc = "wait" /\ mon'[r].pc = "migrate"
                    /\ mon'[r].ticks = mon[r].ticks + 1
            /\ (mon[r].pc = "wait" /\ mon'[r].pc = "migrate") =>
                 /\ targetConn'[r] = mon'[r].newAddr
                 /\ targetConn'[r] # targetConn[r]]_vars

\* monitorDNS has replaced the target while a handleClientPacket holds the
\* address it read before: the old one, whole
C20_Witness ==
    /\ targetConn[1] = ResolveUDPAddr(2) /\ mon[1].pc = "migrate"
    /\ \E t \in 1..Len(hcp[1]) :
         hcp[1][t].pc = "create" /\ hcp[1][t].target = ResolveUDPAddr(1)

\* C21 (migration only on a real change): a tick of monitorDNS whose resolved
\* address has the IP and the port of the current target leaves the target,
\* the table, the sessions, the sockets and the goroutines unchanged and the
\* monitor waits for the next tick; a tick whose address differs installs it
\* and calls migrateSessionsToNewTarget; the sweeps are as many as the ticks
\* that found a change (one less while the call is pending).
C21_MigrationOnlyOnChange ==
    /\ [](\A r \in AllPorts :
            /\ mon[r].sweeps = mon[r].changes - (IF mon[r].pc = "migrate" THEN 1 ELSE 0)
            /\ mon[r].pc = "sweep" => mon[r].sweeps >= 1)
    /\ [][\A r \in AllPorts :
            (mon'[r].ticks = mon[r].ticks + 1 /\ ~mon'[r].err) =>
              LET newAddr == ResolveUDPAddr(mon'[r].res) IN
              IF newAddr.ip = targetConn[r].ip /\ newAddr.port = targetConn[r].port
              THEN /\ targetConn'[r] = targetConn[r]
                   /\ sessions'[r] = sessions[r] /\ sess'[r] = sess[r]
                   /\ socks'[r] = socks[r] /\ egr'[r] = egr[r]
                   /\ mon'[r].pc = "wait" /\ mon'[r].changes = mon[r].changes
              ELSE /\ targetConn'[r] = newAddr
                   /\ mon'[r].pc = "migrate" /\ mon'[r].changes = mon[r].changes + 1
                   /\ sessions'[r] = sessions[r] /\ socks'[r] = socks[r]]_vars

\* a tick has resolved the address the target already has while a session is
\* in the table: no sweep has run and the session has its first socket
C21_Witness ==
    /\ mon[1].ticks = 1 /\ ~mon[1].err /\ mon[1].pc = "wait"
    /\ ResolveUDPAddr(mon[1].res) = targetConn[1]
    /\ mon[1].sweeps = 0
    /\ \E s \in SessIds(1) :
         InTable(1, s) /\ sess[1][s].gen = 0 /\ ~SessionClosed(1, s)

\* the keys that have an entry in the table
TableKeys(r) == {k \in Keys : sessions[r][k] # 0}

\* C22 (a sweep changes only backend sockets): the step that re-homes a
\* session leaves the table, the session's clientAddr, toClientConn and
\* lastActive and the client-facing socket as they are and installs a newly
\* dialed backend socket; while a sweep runs the table changes only by the
\* deletion of an entry whose DialUDP failed, so that the keys in the table
\* are those still to visit and those re-homed, and after a sweep without
\* failure the keys are those the sweep started with.
C22_SweepFrame ==
    /\ [](\A r \in AllPorts :
            mon[r].pc = "sweep" =>
              /\ TableKeys(r) = mon[r].left \cup mon[r].migrated
              /\ mon[r].left \cap mon[r].migrated = {}
              /\ mon[r].failed \cap TableKeys(r) = {})
    /\ [][\A r \in AllPorts :
            /\ \A s \in SessIds(r) :
                 sess'[r][s].gen # sess[r][s].gen =>
                   /\ sessions'[r] = sessions[r] /\ InTable(r, s)
                   /\ sess'[r][s].clientAddr = sess[r][s].clientAddr
                   /\ sess'[r][s].toClientConn = sess[r][s].toClientConn
                   /\ sess'[r][s].lastActive = sess[r][s].lastActive
                   /\ socks'[r][sess[r][s].toClientConn] = socks[r][sess[r][s].toClientConn]
                   /\ sess'[r][s].toServerConn = Len(socks[r]) + 1
                   /\ socks'[r][sess'[r][s].toServerConn].open
                   /\ \A s2 \in SessIds(r) \ {s} : sess'[r][s2] = sess[r][s2]
            /\ (mon[r].pc = "sweep" /\ sessions'[r] # sessions[r]) =>
                 /\ mon'[r].failed # mon[r].failed
                 /\ \A k \in Keys : sessions'[r][k] \in {0, sessions[r][k]}
            /\ (mon[r].pc = "sweep" /\ mon'[r].pc = "wait" /\ mon[r].failed = {}) =>
                 TableKeys(r) = mon[r].migrated]_vars

\* a sweep without failure has re-homed the sessions of two clients: both
\* keep their entries and their client-facing sockets, and have new backend
\* sockets
C22_Witness ==
    /\ mon[1].pc = "wait" /\ mon[1].sweeps = 1 /\ mon[1].failed = {}
    /\ mon[1].migrated = Keys
    /\ \A k \in Keys :
         /\ sessions[1][k] # 0
         /\ sess[1][sessions[1][k]].gen = 1
         /\ socks[1][sess[1][sessions[1][k]].toClientConn].open
         /\ socks[1][sess[1][sessions[1][k]].toServerConn].open

\* C23 (the reaper evicts only stale sessions): in the step of a tick of
\* cleanupSessions, a session of the table is closed and removed exactly if
\* the timestamp of the sweep minus its lastActive is greater than the
\* timeout; every other session keeps its entry, and its sockets are as they
\* were.
C23_ReaperEvictsOnlyStale ==
    [][\A r \in AllPorts :
         reaper'[r].next # reaper[r].next /\ reaper[r].pc = "idle" =>
           \A k \in Keys :
             LET s == sessions[r][k] IN
             s # 0 =>
               IF now - sess[r][s].lastActive > cfg.timeout
               THEN /\ sessions'[r][k] = 0
                    /\ ~socks'[r][sess[r][s].toServerConn].open
                    /\ ~socks'[r][sess[r][s].toClientConn].open
               ELSE /\ sessions'[r][k] = s
                    /\ sess'[r][s] = sess[r][s]
                    /\ socks'[r][sess[r][s].toServerConn] = socks[r][sess[r][s].toServerConn]
                    /\ socks'[r][sess[r][s].toClientConn] = socks[r][sess[r][s].toClientConn]]_vars

\* one sweep has evicted the session of one client, idle for more than the
\* timeout (its goroutine is still inside Read), and has kept the session of
\* another client, idle for exactly the timeout
C23_Witness ==
    /\ reaper[1].next > now
    /\ \E s1 \in SessIds(1), s2 \in SessIds(1) :
         /\ sess[1][s1].clientAddr # sess[1][s2].clientAddr
         /\ ~InTable(1, s1) /\ SessionClosed(1, s1)
         /\ now - sess[1][s1].lastActive > cfg.timeout
         /\ \E e \in 1..Len(egr[1]) : egr[1][e].s = s1 /\ egr[1][e].pc = "blocked"
         /\ mon[1].ticks = 0
         /\ InTable(1, s2) /\ now - sess[1][s2].lastActive = cfg.timeout
         /\ socks[1][sess[1][s2].toServerConn].open
         /\ socks[1][sess[1][s2].toClientConn].open

\* C26 (a teardown concerns only its own session), as claimed: the step in
\* which a handleTargetResponses goroutine gets its Read error or timeout and
\* returns, while the table holds under its key another session object than
\* the one it was started for, closes no socket and removes no entry.
C26_TeardownOnlyOwnSession ==
    [][\A r \in AllPorts : \A e \in 1..Len(egr[r]) :
         (/\ egr[r][e].pc = "blocked" /\ egr'[r][e].pc = "done"
          /\ sessions[r][egr[r][e].key] # egr[r][e].s)
         => /\ sessions'[r] = sessions[r]
            /\ socks'[r] = socks[r]]_vars

\* C28 (no unsynchronised access to toServerConn), as claimed: while the
\* migrator holds the mu of a session, between closing its old backend socket
\* and assigning the new one, no handleClientPacket is at its Write on
\* session.toServerConn and no handleTargetResponses is at its
\* SetReadDeadline/Read of session.toServerConn for that session.
C28_SocketFieldSynchronised ==
    \A r \in AllPorts : \A s \in SessIds(r) :
      sess[r][s].mu = Holder("mon", 0) =>
        /\ \A t \in 1..Len(hcp[r]) : ~(hcp[r][t].pc = "write" /\ hcp[r][t].s = s)
        /\ \A e \in 1..Len(egr[r]) : ~(egr[r][e].pc = "read" /\ egr[r][e].s = s)

\* C24 (lock granularity), as claimed: sessionsMu is held only for the lookup
\* and the insert: whoever holds it holds no session's mu and dials no socket
\* for a session that is already in the table, and no handleClientPacket of
\* one client is kept waiting for sessionsMu while its holder works on the
\* session of another client.
C24_LockGranularity ==
    \A r \in AllPorts :
      sessionsMu[r] # Free =>
        /\ \A s \in SessIds(r) : sess[r][s].mu = Free
        /\ \A t \in 1..Len(hcp[r]) :
             hcp[r][t].pc = "lock" => mon[r].cur \in {0, hcp[r][t].key}

\* C29 (no socket leak): at all times every socket that was ever dialed is
\* closed or is one of the two sockets of a session in the table, the old
\* backend socket of a session under re-homing included; the step in which a
\* sweep removes a session whose DialUDP failed leaves its old backend socket
\* and its client-facing socket closed.
C29_NoSocketLeak ==
    /\ [](\A r \in AllPorts : \A c \in 1..Len(socks[r]) :
            socks[r][c].open => OwnedByTable(r, c))
    /\ [][\A r \in AllPorts : \A k \in Keys :
            (k \in mon'[r].failed /\ k \notin mon[r].failed) =>
              /\ sessions'[r][k] = 0
              /\ ~socks'[r][sess[r][sessions[r][k]].toServerConn].open
              /\ ~socks'[r][sess[r][sessions[r][k]].toClientConn].open]_vars

\* a sweep has failed to re-home the only session while the session's
\* goroutine is inside Read: no socket is open, the table is empty
C29_Witness ==
    /\ mon[1].pc = "wait" /\ mon[1].failed # {}
    /\ Len(socks[1]) >= 2
    /\ \A c \in 1..Len(socks[1]) : ~socks[1][c].open
    /\ \A k \in Keys : sessions[1][k] = 0
    /\ \E e \in 1..Len(egr[1]) : egr[1][e].pc = "blocked"

\* C30 (session isolation): the step of a goroutine that tears down after a
\* Read error or timeout, the step of a failed forward and the step that
\* creates a session, each for client key A, leave the entry, the session
\* object (lastActive included) and both sockets of every key B # A
\* unchanged; a sweep of the reaper leaves them unchanged for every key whose
\* session has not been idle for more than the timeout.
C30_SessionIsolation ==
    [][\A r \in AllPorts :
         LET Same(k) ==
               /\ sessions'[r][k] = sessions[r][k]
               /\ sessions[r][k] # 0 =>
                    LET s == sessions[r][k] IN
                    /\ sess'[r][s] = sess[r][s]
                    /\ socks'[r][sess[r][s].toServerConn] = socks[r][sess[r][s].toServerConn]
                    /\ socks'[r][sess[r][s].toClientConn] = socks[r][sess[r][s].toClientConn]
         IN
         /\ \A e \in 1..Len(egr[r]) :
              (egr[r][e].pc = "blocked" /\ egr'[r][e].pc = "done") =>
                \A k \in Keys \ {egr[r][e].key} : Same(k)
         /\ (Len(fwd'[r]) = Len(fwd[r]) + 1 /\ ~fwd'[r][Len(fwd'[r])].ok) =>
                \A k \in Keys \ {fwd'[r][Len(fwd'[r])].key} : Same(k)
         /\ Len(sess'[r]) = Len(sess[r]) + 1 =>
                \A k \in Keys \ {sess'[r][Len(sess'[r])].clientAddr} : Same(k)
         /\ (reaper'[r].next # reaper[r].next /\ reaper[r].pc = "idle") =>
                \A k \in Keys :
                  (sessions[r][k] # 0
                   /\ now - sess[r][sessions[r][k]].lastActive <= cfg.timeout) => Same(k)]_vars

\* the session of one client was torn down after the timeout of its Read
\* while the session of another client, created later, is in the table with
\* both sockets open and its goroutine inside Read
C30_Witness ==
    \E s1 \in SessIds(1), s2 \in SessIds(1) :
      /\ sess[1][s1].clientAddr # sess[1][s2].clientAddr
      /\ ~InTable(1, s1) /\ SessionClosed(1, s1)
      /\ \A e \in 1..Len(egr[1]) : egr[1][e].s # s1
      /\ InTable(1, s2) /\ sess[1][s2].lastActive > sess[1][s1].lastActive
      /\ socks[1][sess[1][s2].toServerConn].open
      /\ socks[1][sess[1][s2].toClientConn].open
      /\ \E e \in 1..Len(egr[1]) : egr[1][e].s = s2 /\ egr[1][e].pc = "blocked"

(* ------------- the simple-topology variant (unnamed/part_001) ----------- *)
\* In this variant a session has one socket, conn, dialed to the target;
\* toClientConn is 0.  The model covers Start's ingress loop and
\* handleClientPacket; monitorDNS, cleanupSessions and handleTargetResponses
\* are started and stay blocked (no tick, no reply and no deadline falls into
\* the window modelled).  The position of the ingress loop inside ReadFrom is
\* kept in the record of the goroutine it is about to start: pc "recv", n the
\* number of bytes the kernel has copied into the buffer so far.

\* Start of part_001: resolve, bind, start the two background goroutines,
\* make the receive buffer
SimpleStart(r) ==
    /\ proc = "running" /\ rstate[r] = "new"
    /\ targetConn' = [targetConn EXCEPT ![r] = ResolveUDPAddr(1)]
    /\ rstate' = [rstate EXCEPT ![r] = "running"]
    /\ mon' = [mon EXCEPT ![r] = [NoMon EXCEPT !.pc = "init"]]
    /\ reaper' = [reaper EXCEPT ![r] = [NoReaper EXCEPT !.pc = "idle",
                                                        !.next = now + SimpleReaperPeriod]]
    /\ UNCHANGED <<cfg, budget, now, proc, sessions, sessionsMu, sess, socks,
                   buffer, hcp, fwd, rpl, egr>>

\* the ingress loop is inside ReadFrom, a datagram is being copied
SimpleReceiving(r) == \E t \in 1..Len(hcp[r]) : hcp[r][t].pc = "recv"

\* listenConn.ReadFrom(buffer): a datagram has arrived, the kernel starts to
\* copy up to len(buffer) of its bytes into the reused buffer
SimpleReadFrom(r) ==
    /\ Running(r)
    /\ ~SimpleReceiving(r)
    /\ CanSpend("pkts")
    /\ \E k \in 1..Min(NumClients, SeenClients(r) + 1) :
         LET p == Payload(Len(hcp[r]) + 1)
             n == Min(Len(p), cfg.bufferSize)
         IN hcp' = [hcp EXCEPT ![r] = Append(@,
                      [pc |-> "recv", key |-> k, seq |-> Len(hcp[r]) + 1, n |-> 0,
                       data |-> <<>>, orig |-> SubSeq(p, 1, n), s |-> 0,
                       target |-> NoAddr])]
    /\ budget' = Spend("pkts")
    /\ UNCHANGED <<cfg, now, proc, rstate, targetConn, sessions, sessionsMu, sess,
                   socks, buffer, egr, reaper, mon, fwd, rpl>>

\* the next byte of the datagram is stored in the buffer; after the last one
\* ReadFrom returns n and the loop runs
\* go r.handleClientPacket(buffer[:n], clientAddr): the goroutine gets a slice
\* of the loop's buffer, not a copy
SimpleCopyByte(r) ==
    /\ Running(r)
    /\ \E t \in 1..Len(hcp[r]) :
         /\ hcp[r][t].pc = "recv"
         /\ LET i == hcp[r][t].n + 1 IN
            /\ buffer' = [buffer EXCEPT ![r][i] = hcp[r][t].orig[i]]
            /\ hcp' = [hcp EXCEPT ![r][t].n = i,
                                  ![r][t].pc = IF i = Len(hcp[r][t].orig)
                                               THEN "lock" ELSE "recv"]
    /\ UNCHANGED <<cfg, budget, now, proc, rstate, targetConn, sessions, sessionsMu,
                   sess, socks, egr, reaper, mon, fwd, rpl>>

\* the bytes of the slice data = buffer[:n] when handleClientPacket reads
\* them: whatever the loop's buffer holds at that moment
SimpleHandlerData(r, t) == SubSeq(buffer[r], 1, hcp[r][t].n)

\* sessionsMu.Lock() and the lookup; without an entry the goroutine reads the
\* target and goes on to dial, holding the lock
SimpleHcpLock(r, t) ==
    /\ Running(r)
    /\ t \in 1..Len(hcp[r]) /\ hcp[r][t].pc = "lock"
    /\ SessionsMuFree(r)
    /\ LET k == hcp[r][t].key IN
       IF sessions[r][k] # 0
       THEN /\ hcp' = [hcp EXCEPT ![r][t].pc = "touch", ![r][t].s = sessions[r][k]]
            /\ UNCHANGED sessionsMu
       ELSE /\ hcp' = [hcp EXCEPT ![r][t].pc = "create", ![r][t].target = targetConn[r]]
            /\ sessionsMu' = [sessionsMu EXCEPT ![r] = Holder("hcp", t)]
    /\ UNCHANGED <<cfg, budget, now, proc, rstate, targetConn, sessions, sess, socks,
                   buffer, egr, reaper, mon, fwd, rpl>>

\* DialUDP fails: unlock and return, nothing is written
SimpleHcpDialError(r, t) ==
    /\ Running(r)
    /\ t \in 1..Len(hcp[r]) /\ hcp[r][t].pc = "create"
    /\ CanSpend("dialFails")
    /\ budget' = Spend("dialFails")
    /\ hcp' = [hcp EXCEPT ![r][t] = DoneHcp(hcp[r][t].key)]
    /\ sessionsMu' = [sessionsMu EXCEPT ![r] = Free]
    /\ UNCHANGED <<cfg, now, proc, rstate, targetConn, sessions, sess, socks,
                   buffer, egr, reaper, mon, fwd, rpl>>

\* the session is made and inserted, go handleTargetResponses, unlock
SimpleHcpCreate(r, t) ==
    /\ Running(r)
    /\ t \in 1..Len(hcp[r]) /\ hcp[r][t].pc = "create"
    /\ LET k == hcp[r][t].key
           c == Len(socks[r]) + 1
           s == Len(sess[r]) + 1
       IN /\ socks' = [socks EXCEPT ![r] = Append(@, NewSock("srv", hcp[r][t].target, k))]
          /\ sess' = [sess EXCEPT ![r] = Append(@,
                        [clientAddr |-> k, toServerConn |-> c, toClientConn |-> 0,
                         lastActive |-> now, mu |-> Free, by |-> t, gen |-> 0])]
          /\ sessions' = [sessions EXCEPT ![r][k] = s]
          /\ egr' = [egr EXCEPT ![r] = Append(@, NewEgr(k, s, 0))]
          /\ hcp' = [hcp EXCEPT ![r][t].pc = "touch", ![r][t].s = s,
                                  ![r][t].target = NoAddr]
    /\ sessionsMu' = [sessionsMu EXCEPT ![r] = Free]
    /\ UNCHANGED <<cfg, budget, now, proc, rstate, targetConn, buffer, reaper, mon,
                   fwd, rpl>>

\* session.mu.Lock(); session.lastActive = time.Now(); session.mu.Unlock()
SimpleHcpTouch(r, t) ==
    /\ Running(r)
    /\ t \in 1..Len(hcp[r]) /\ hcp[r][t].pc = "touch"
    /\ SessionMuFree(r, hcp[r][t].s)
    /\ sess' = [sess EXCEPT ![r][hcp[r][t].s].lastActive = now]
    /\ hcp' = [hcp EXCEPT ![r][t].pc = "write"]
    /\ UNCHANGED <<cfg, budget, now, proc, rstate, targetConn, sessions, sessionsMu,
                   socks, buffer, egr, reaper, mon, fwd, rpl>>

\* session.conn.Write(data): the bytes sent are those the slice shows now; an
\* error is logged, nothing else
SimpleHcpWrite(r, t) ==
    /\ Running(r)
    /\ t \in 1..Len(hcp[r]) /\ hcp[r][t].pc = "write"
    /\ \E io \in BOOLEAN :
         LET c == sess[r][hcp[r][t].s].toServerConn IN
         /\ io => socks[r][c].open /\ CanSpend("ioFails")
         /\ budget' = IF io THEN Spend("ioFails") ELSE budget
         /\ fwd' = [fwd EXCEPT ![r] = Append(@,
                 [key |-> hcp[r][t].key, seq |-> hcp[r][t].seq, s |-> hcp[r][t].s,
                  conn |-> c, open |-> socks[r][c].open, ok |-> WriteOk(r, c, io),
                  data |-> SimpleHandlerData(r, t),
                  orig |-> hcp[r][t].orig, nread |-> Len(hcp[r])])]
    /\ hcp' = [hcp EXCEPT ![r][t] = DoneHcp(hcp[r][t].key)]
    /\ UNCHANGED <<cfg, now, proc, rstate, targetConn, sessions, sessionsMu,
                   sess, socks, buffer, egr, reaper, mon, rpl>>

NextSimple ==
    \E r \in AllPorts :
      \/ SimpleStart(r)
      \/ SimpleReadFrom(r)
      \/ SimpleCopyByte(r)
      \/ \E t \in 1..MaxPkts :
           \/ SimpleHcpLock(r, t)
           \/ SimpleHcpDialError(r, t)
           \/ SimpleHcpCreate(r, t)
           \/ SimpleHcpTouch(r, t)
           \/ SimpleHcpWrite(r, t)

\* one listen port; no DNS tick and no reply from the backend
InitSimple ==
    /\ cfg = [ports |-> {1}, dnsCheckInterval |-> 1, timeout |-> Timeout,
              bufferSize |-> BufferSize]
    /\ budget = [events |-> MaxEvents, pkts |-> MaxPkts, replies |-> 0,
                 dns |-> 0, dialFails |-> MaxDialFails, ioFails |-> MaxIoFails]
    /\ InitRelays

SpecSimple == InitSimple /\ [][NextSimple]_vars

\* C25 (forwarding fidelity in part_001): every Write of handleClientPacket
\* on a backend socket sends exactly the bytes of the datagram the goroutine
\* was started for, as ReadFrom delivered them.
C25_SimpleForwardFidelity ==
    \A r \in AllPorts : \A i \in 1..Len(fwd[r]) : fwd[r][i].data = fwd[r][i].orig

(* ------------------- the locks, one step per Lock/Unlock ---------------- *)
\* The actions above take the short critical sections (the update of
\* lastActive, closeSession, a sweep of cleanupSessions, the read and the store
\* of the target) in one step.  Here every Lock, RLock and Unlock of main.go
\* is a step of its own, so that a goroutine can be seen waiting for one lock
\* while it holds another.  targetConnMu has no variable of its own: who holds
\* it is read off the positions of the goroutines.

\* the goroutines between targetConnMu.RLock() and RUnlock()
TargetMuReaders(r) ==
    {Holder("hcp", t) : t \in {x \in 1..Len(hcp[r]) : hcp[r][x].pc = "rtarget"}}
      \cup (IF mon[r].pc = "rcur" THEN {Holder("mon", 0)} ELSE {})

\* the goroutine between targetConnMu.Lock() and Unlock()
TargetMuWriter(r) == IF mon[r].pc = "store" THEN {Holder("mon", 0)} ELSE {}

\* the goroutine that has called targetConnMu.Lock() and waits for the readers
\* to leave; sync.RWMutex makes new readers wait behind it
TargetMuPending(r) == IF mon[r].pc = "wlock" THEN {Holder("mon", 0)} ELSE {}

\* targetConnMu.RLock() can return
TargetMuRLockFree(r) == TargetMuWriter(r) = {} /\ TargetMuPending(r) = {}

\* targetConnMu.Lock() can return
TargetMuLockFree(r) == TargetMuReaders(r) = {} /\ TargetMuWriter(r) = {}

\* handleClientPacket: r.sessionsMu.Lock() returns
LkHcpLock(r, t) ==
    /\ Running(r)
    /\ t \in 1..Len(hcp[r]) /\ hcp[r][t].pc = "lock"
    /\ SessionsMuFree(r)
    /\ sessionsMu' = [sessionsMu EXCEPT ![r] = HcpHolds(r, t)]
    /\ hcp' = [hcp EXCEPT ![r][t].pc = "lookup"]
    /\ UNCHANGED <<cfg, budget, now, proc, rstate, targetConn, sessions, sess, socks,
                   buffer, egr, reaper, mon, fwd, rpl>>

\* session, exists := r.sessions[clientKey]; with an entry the goroutine goes
\* on to r.sessionsMu.Unlock(), without one to targetConnMu.RLock()
LkHcpLookup(r, t) ==
    /\ Running(r)
    /\ t \in 1..Len(hcp[r]) /\ hcp[r][t].pc = "lookup"
    /\ LET k == hcp[r][t].key IN
       IF sessions[r][k] # 0
       THEN /\ hcp' = [hcp EXCEPT ![r][t].pc = "touch", ![r][t].s = sessions[r][k]]
            /\ sessionsMu' = [sessionsMu EXCEPT ![r] = Free]
       ELSE /\ hcp' = [hcp EXCEPT ![r][t].pc = "rlock"]
            /\ UNCHANGED sessionsMu
    /\ UNCHANGED <<cfg, budget, now, proc, rstate, targetConn, sessions, sess, socks,
                   buffer, egr, reaper, mon, fwd, rpl>>

\* r.targetConnMu.RLock() returns
LkHcpRLock(r, t) ==
    /\ Running(r)
    /\ t \in 1..Len(hcp[r]) /\ hcp[r][t].pc = "rlock"
    /\ TargetMuRLockFree(r)
    /\ hcp' = [hcp EXCEPT ![r][t].pc = "rtarget"]
    /\ UNCHANGED <<cfg, budget, now, proc, rstate, targetConn, sessions, sessionsMu,
                   sess, socks, buffer, egr, reaper, mon, fwd, rpl>>

\* targetConn := r.targetConn; r.targetConnMu.RUnlock()
LkHcpReadTarget(r, t) ==
    /\ Running(r)
    /\ t \in 1..Len(hcp[r]) /\ hcp[r][t].pc = "rtarget"
    /\ hcp' = [hcp EXCEPT ![r][t].pc = "create", ![r][t].target = ReadTarget(r)]
    /\ UNCHANGED <<cfg, budget, now, proc, rstate, targetConn, sessions, sessionsMu,
                   sess, socks, buffer, egr, reaper, mon, fwd, rpl>>

\* session.mu.Lock() returns
LkHcpTouchLock(r, t) ==
    /\ Running(r)
    /\ t \in 1..Len(hcp[r]) /\ hcp[r][t].pc = "touch"
    /\ SessionMuFree(r, hcp[r][t].s)
    /\ sess' = [sess EXCEPT ![r][hcp[r][t].s].mu = Holder("hcp", t)]
    /\ hcp' = [hcp EXCEPT ![r][t].pc = "touched"]
    /\ UNCHANGED <<cfg, budget, now, proc, rstate, targetConn, sessions, sessionsMu,
                   socks, buffer, egr, reaper, mon, fwd, rpl>>

\* session.lastActive = time.Now(); session.mu.Unlock()
LkHcpTouchUnlock(r, t) ==
    /\ Running(r)
    /\ t \in 1..Len(hcp[r]) /\ hcp[r][t].pc = "touched"
    /\ sess' = [sess EXCEPT ![r][hcp[r][t].s].lastActive = now,
                            ![r][hcp[r][t].s].mu = Free]
    /\ hcp' = [hcp EXCEPT ![r][t].pc = "write"]
    /\ UNCHANGED <<cfg, budget, now, proc, rstate, targetConn, sessions, sessionsMu,
                   socks, buffer, egr, reaper, mon, fwd, rpl>>

\* handleTargetResponses: Read returns an error, r.closeSession(clientKey) is
\* called
LkEgReadError(r, e) ==
    /\ Running(r)
    /\ e \in 1..Len(egr[r]) /\ egr[r][e].pc = "blocked"
    /\ ReadFails(r, egr[r][e].conn)
    /\ egr' = [egr EXCEPT ![r][e].pc = "close"]
    /\ UNCHANGED <<cfg, budget, now, proc, rstate, targetConn, sessions, sessionsMu,
                   sess, socks, buffer, hcp, reaper, mon, fwd, rpl>>

\* closeSession: r.sessionsMu.Lock() returns
LkEgCloseLock(r, e) ==
    /\ Running(r)
    /\ e \in 1..Len(egr[r]) /\ egr[r][e].pc = "close"
    /\ SessionsMuFree(r)
    /\ sessionsMu' = [sessionsMu EXCEPT ![r] = Holder("egr", e)]
    /\ egr' = [egr EXCEPT ![r][e].pc = "closing"]
    /\ UNCHANGED <<cfg, budget, now, proc, rstate, targetConn, sessions,
                   sess, socks, buffer, hcp, reaper, mon, fwd, rpl>>

\* closeSession: the lookup, the two Close calls, the delete and the deferred
\* r.sessionsMu.Unlock(); the goroutine returns
LkEgCloseUnlock(r, e) ==
    /\ Running(r)
    /\ e \in 1..Len(egr[r]) /\ egr[r][e].pc = "closing"
    /\ socks' = [socks EXCEPT ![r] = CloseSessionSocks(r, egr[r][e].key)]
    /\ sessions' = [sessions EXCEPT ![r] = CloseSessionTable(r, egr[r][e].key)]
    /\ sessionsMu' = [sessionsMu EXCEPT ![r] = Free]
    /\ egr' = [egr EXCEPT ![r][e] = NoEgr]
    /\ UNCHANGED <<cfg, budget, now, proc, rstate, targetConn,
                   sess, buffer, hcp, reaper, mon, fwd, rpl>>

\* handleTargetResponses after a successful Read: session.mu.Lock() returns
LkEgTouchLock(r, e) ==
    /\ Running(r)
    /\ e \in 1..Len(egr[r]) /\ egr[r][e].pc = "reply"
    /\ SessionMuFree(r, egr[r][e].s)
    /\ sess' = [sess EXCEPT ![r][egr[r][e].s].mu = Holder("egr", e)]
    /\ egr' = [egr EXCEPT ![r][e].pc = "touched"]
    /\ UNCHANGED <<cfg, budget, now, proc, rstate, targetConn, sessions, sessionsMu,
                   socks, buffer, hcp, reaper, mon, fwd, rpl>>

\* session.lastActive = time.Now(); session.mu.Unlock(); the Write to the
\* client (an error is logged) and the SetReadDeadline of the next iteration
LkEgRelay(r, e) ==
    /\ Running(r)
    /\ e \in 1..Len(egr[r]) /\ egr[r][e].pc = "touched"
    /\ sess' = [sess EXCEPT ![r][egr[r][e].s].lastActive = now,
                            ![r][egr[r][e].s].mu = Free]
    /\ \E io \in BOOLEAN :
         LET c == sess[r][egr[r][e].s].toClientConn IN
         /\ io => socks[r][c].open /\ CanSpend("ioFails")
         /\ budget' = IF io THEN Spend("ioFails") ELSE budget
         /\ rpl' = [rpl EXCEPT ![r] = Append(@,
                 [key |-> egr[r][e].key, s |-> egr[r][e].s, seq |-> egr[r][e].seq,
                  from |-> egr[r][e].conn, conn |-> c, open |-> socks[r][c].open,
                  ok |-> WriteOk(r, c, io)])]
         /\ egr' = [egr EXCEPT ![r][e].pc = IF WriteOk(r, c, io) THEN "read"
                                            ELSE EgOnWriteError(r, e),
                               ![r][e].conn = 0, ![r][e].seq = 0]
    /\ socks' = [socks EXCEPT ![r] = SetReadDeadline(@, sess[r][egr[r][e].s].toServerConn)]
    /\ UNCHANGED <<cfg, now, proc, rstate, targetConn, sessions, sessionsMu,
                   buffer, hcp, reaper, mon, fwd>>

\* cleanupSessions: the ticker has fired, now := time.Now(),
\* r.sessionsMu.Lock() returns and the range over the table starts
LkReaperLock(r) ==
    /\ Running(r)
    /\ reaper[r].pc = "idle" /\ now >= reaper[r].next
    /\ SessionsMuFree(r)
    /\ sessionsMu' = [sessionsMu EXCEPT ![r] = Holder("reaper", 0)]
    /\ reaper' = [reaper EXCEPT ![r] = [pc |-> "sweep", next |-> reaper[r].next,
                                        left |-> TableKeys(r), cur |-> 0]]
    /\ UNCHANGED <<cfg, budget, now, proc, rstate, targetConn, sessions, sess, socks,
                   buffer, hcp, egr, mon, fwd, rpl>>

\* one iteration, session.mu.Lock() returns
LkReaperLockSession(r, k) ==
    /\ Running(r)
    /\ reaper[r].pc = "sweep" /\ reaper[r].cur = 0 /\ k \in reaper[r].left
    /\ SessionMuFree(r, sessions[r][k])
    /\ sess' = [sess EXCEPT ![r][sessions[r][k]].mu = Holder("reaper", 0)]
    /\ reaper' = [reaper EXCEPT ![r].cur = k]
    /\ UNCHANGED <<cfg, budget, now, proc, rstate, targetConn, sessions, sessionsMu,
                   socks, buffer, hcp, egr, mon, fwd, rpl>>

\* the comparison, for an expired session the two Close calls and the delete,
\* and session.mu.Unlock()
LkReaperInspect(r, k) ==
    /\ Running(r)
    /\ reaper[r].pc = "sweep" /\ reaper[r].cur = k /\ k # 0
    /\ LET s == sessions[r][k] IN
       /\ IF Expired(now, sess[r][s].lastActive)
          THEN /\ socks' = [socks EXCEPT ![r] =
                              CloseSock(CloseSock(@, sess[r][s].toServerConn),
                                        sess[r][s].toClientConn)]
               /\ sessions' = [sessions EXCEPT ![r][k] = 0]
          ELSE UNCHANGED <<socks, sessions>>
       /\ sess' = [sess EXCEPT ![r][s].mu = Free]
    /\ reaper' = [reaper EXCEPT ![r].left = @ \ {k}, ![r].cur = 0]
    /\ UNCHANGED <<cfg, budget, now, proc, rstate, targetConn, sessionsMu,
                   buffer, hcp, egr, mon, fwd, rpl>>

\* the range is over: r.sessionsMu.Unlock(), back to the ticker
LkReaperUnlock(r) ==
    /\ Running(r)
    /\ reaper[r].pc = "sweep" /\ reaper[r].left = {} /\ reaper[r].cur = 0
    /\ sessionsMu' = [sessionsMu EXCEPT ![r] = Free]
    /\ reaper' = [reaper EXCEPT ![r] = [pc |-> "idle",
                                        next |-> reaper[r].next + ReaperPeriod]]
    /\ UNCHANGED <<cfg, budget, now, proc, rstate, targetConn, sessions, sess, socks,
                   buffer, hcp, egr, mon, fwd, rpl>>

\* monitorDNS: the ticker has fired; ResolveUDPAddr fails and the loop
\* continues, or it returns an address and the goroutine goes on to
\* r.targetConnMu.RLock()
LkMonTick(r) ==
    /\ Running(r)
    /\ mon[r].pc = "wait"
    /\ CanSpend("dns")
    /\ budget' = Spend("dns")
    /\ \E res \in 0..NumIPs :
         IF ResolveErr(res)
         THEN mon' = [mon EXCEPT ![r].ticks = @ + 1, ![r].err = (res = 0),
                                 ![r].res = res]
         ELSE mon' = [mon EXCEPT ![r].pc = "rlock", ![r].newAddr = ResolveUDPAddr(res),
                                 ![r].ticks = @ + 1, ![r].err = (res = 0),
                                 ![r].res = res]
    /\ UNCHANGED <<cfg, now, proc, rstate, targetConn, sessions, sessionsMu, sess,
                   socks, buffer, hcp, egr, reaper, fwd, rpl>>

\* r.targetConnMu.RLock() returns
LkMonRLock(r) ==
    /\ Running(r)
    /\ mon[r].pc = "rlock"
    /\ TargetMuWriter(r) = {}
    /\ mon' = [mon EXCEPT ![r].pc = "rcur"]
    /\ UNCHANGED <<cfg, budget, now, proc, rstate, targetConn, sessions, sessionsMu,
                   sess, socks, buffer, hcp, egr, reaper, fwd, rpl>>

\* currentAddr := r.targetConn; r.targetConnMu.RUnlock(); the comparison; for
\* a changed address r.targetConnMu.Lock() is called
LkMonCompare(r) ==
    /\ Running(r)
    /\ mon[r].pc = "rcur"
    /\ IF AddrChanged(targetConn[r], mon[r].newAddr)
       THEN mon' = [mon EXCEPT ![r].pc = "wlock", ![r].changes = @ + 1]
       ELSE mon' = [mon EXCEPT ![r].pc = "wait", ![r].newAddr = NoAddr]
    /\ UNCHANGED <<cfg, budget, now, proc, rstate, targetConn, sessions, sessionsMu,
                   sess, socks, buffer, hcp, egr, reaper, fwd, rpl>>

\* r.targetConnMu.Lock() returns
LkMonLock(r) ==
    /\ Running(r)
    /\ mon[r].pc = "wlock"
    /\ TargetMuLockFree(r)
    /\ mon' = [mon EXCEPT ![r].pc = "store"]
    /\ UNCHANGED <<cfg, budget, now, proc, rstate, targetConn, sessions, sessionsMu,
                   sess, socks, buffer, hcp, egr, reaper, fwd, rpl>>

\* r.targetConn = newAddr; r.targetConnMu.Unlock();
\* migrateSessionsToNewTarget is called
LkMonStore(r) ==
    /\ Running(r)
    /\ mon[r].pc = "store"
    /\ targetConn' = [targetConn EXCEPT ![r] = StoreTarget(@, mon[r].newAddr)]
    /\ mon' = [mon EXCEPT ![r].pc = "migrate"]
    /\ UNCHANGED <<cfg, budget, now, proc, rstate, sessions, sessionsMu,
                   sess, socks, buffer, hcp, egr, reaper, fwd, rpl>>

NextLocks ==
    \/ Tick
    \/ \E r \in AllPorts :
         \/ Start(r)
         \/ IngressRead(r)
         \/ MonInit(r)
         \/ LkMonTick(r)
         \/ LkMonRLock(r)
         \/ LkMonCompare(r)
         \/ LkMonLock(r)
         \/ LkMonStore(r)
         \/ MigrateLock(r)
         \/ MigrateDone(r)
         \/ LkReaperLock(r)
         \/ LkReaperUnlock(r)
         \/ \E k \in Keys :
              \/ MigrateClose(r, k)
              \/ MigrateSession(r, k)
              \/ MigrateDialError(r, k)
              \/ LkReaperLockSession(r, k)
              \/ LkReaperInspect(r, k)
         \/ \E t \in 1..MaxPkts :
              \/ LkHcpLock(r, t)
              \/ LkHcpLookup(r, t)
              \/ LkHcpRLock(r, t)
              \/ LkHcpReadTarget(r, t)
              \/ HcpDialServerError(r, t)
              \/ HcpDialClientError(r, t)
              \/ HcpCreate(r, t)
              \/ LkHcpTouchLock(r, t)
              \/ LkHcpTouchUnlock(r, t)
              \/ HcpWrite(r, t)
         \/ \E e \in EgrIds :
              \/ EgRead(r, e)
              \/ EgReadData(r, e)
              \/ LkEgReadError(r, e)
              \/ LkEgCloseLock(r, e)
              \/ LkEgCloseUnlock(r, e)
              \/ LkEgTouchLock(r, e)
              \/ LkEgRelay(r, e)

\* one listen port and two scenarios: two datagrams, a reply and the ticker
\* of cleanupSessions; one datagram, a reply, a DNS tick and a failing DialUDP
InitLocks ==
    /\ cfg = [ports |-> {1}, dnsCheckInterval |-> 1, timeout |-> Timeout,
              bufferSize |-> BufferSize]
    /\ budget \in {[events |-> MaxEvents, pkts |-> 2, replies |-> 1,
                    dns |-> 0, dialFails |-> 0, ioFails |-> 0],
                   [events |-> DeepEvents, pkts |-> 1, replies |-> 1,
                    dns |-> MaxDnsTicks, dialFails |-> MaxDialFails, ioFails |-> 0]}
    /\ InitRelays

SpecLocks == InitLocks /\ [][NextLocks]_vars

\* the goroutines of a port, named as the holders of locks are
LockTasks(r) ==
    {Holder("hcp", t) : t \in 1..Len(hcp[r])}
      \cup {Holder("egr", e) : e \in 1..Len(egr[r])}
      \cup {Holder("reaper", 0), Holder("mon", 0)}

\* the locks goroutine T holds: <<"sessionsMu", 0>>, <<"mu", s>> for the mu of
\* session object s, <<"targetConnMu", 0>>
LocksHeld(r, T) ==
    (IF sessionsMu[r] = T THEN {<<"sessionsMu", 0>>} ELSE {})
      \cup {<<"mu", s>> : s \in {x \in SessIds(r) : sess[r][x].mu = T}}
      \cup (IF T \in TargetMuReaders(r) \cup TargetMuWriter(r)
            THEN {<<"targetConnMu", 0>>} ELSE {})

\* the locks the next step of goroutine T acquires; a sweep that is between
\* two sessions may be inside session.mu.Lock() of any session it has not
\* visited yet
LocksWanted(r, T) ==
    IF T.kind = "hcp" THEN
         LET h == hcp[r][T.id] IN
         IF h.pc = "lock" THEN {<<"sessionsMu", 0>>}
         ELSE IF h.pc = "rlock" THEN {<<"targetConnMu", 0>>}
         ELSE IF h.pc = "touch" THEN {<<"mu", h.s>>}
         ELSE {}
    ELSE IF T.kind = "egr" THEN
         LET g == egr[r][T.id] IN
         IF g.pc = "close" THEN {<<"sessionsMu", 0>>}
         ELSE IF g.pc = "reply" THEN {<<"mu", g.s>>}
         ELSE {}
    ELSE IF T.kind = "reaper" THEN
         IF reaper[r].pc = "idle" /\ now >= reaper[r].next THEN {<<"sessionsMu", 0>>}
         ELSE IF reaper[r].pc = "sweep" /\ reaper[r].cur = 0
         THEN {<<"mu", sessions[r][k]>> : k \in reaper[r].left}
         ELSE {}
    ELSE IF mon[r].pc \in {"rlock", "wlock"} THEN {<<"targetConnMu", 0>>}
         ELSE IF mon[r].pc = "migrate" THEN {<<"sessionsMu", 0>>}
         ELSE IF mon[r].pc = "sweep" /\ mon[r].cur = 0
         THEN {<<"mu", sessions[r][k]>> : k \in mon[r].left}
         ELSE {}

\* the goroutines that keep goroutine T from acquiring a lock it wants: the
\* holders of that lock and, for a reader of targetConnMu, a writer that waits
LockBlockers(r, T) ==
    {U \in LockTasks(r) :
       \/ LocksWanted(r, T) \cap LocksHeld(r, U) # {}
       \/ /\ <<"targetConnMu", 0>> \in LocksWanted(r, T)
          /\ U \in TargetMuPending(r) /\ U # T}

\* the order in which the locks are taken: sessionsMu first, then one
\* session's mu or targetConnMu
LockRank(l) == IF l[1] = "sessionsMu" THEN 1 ELSE 2

\* the positions at which a goroutine may hold a lock
LockSection(r, T) ==
    IF T.kind = "hcp" THEN hcp[r][T.id].pc \in {"lookup", "rlock", "rtarget", "create", "touched"}
    ELSE IF T.kind = "egr" THEN egr[r][T.id].pc \in {"closing", "touched"}
    ELSE IF T.kind = "reaper" THEN reaper[r].pc = "sweep"
    ELSE mon[r].pc \in {"rcur", "store", "sweep"}

\* C27 (deadlock freedom): a goroutine that acquires a lock holds only locks
\* of lower rank (sessionsMu before a session's mu or targetConnMu, never two
\* of the latter); every lock that is held is held by a goroutine inside the
\* critical section, so that a goroutine that has returned, also by an error
\* path, or is back at its ticker holds nothing; and there is no set of
\* goroutines each of which waits for a lock that another one of the set
\* holds.
C27_DeadlockFree ==
    \A r \in AllPorts :
      /\ \A T \in LockTasks(r) : \A w \in LocksWanted(r, T) : \A h \in LocksHeld(r, T) :
           LockRank(h) < LockRank(w)
      /\ sessionsMu[r] # Free => sessionsMu[r] \in LockTasks(r)
      /\ \A s \in SessIds(r) : sess[r][s].mu # Free => sess[r][s].mu \in LockTasks(r)
      /\ \A T \in LockTasks(r) : LocksHeld(r, T) # {} => LockSection(r, T)
      /\ \A S \in SUBSET {T \in LockTasks(r) : LockBlockers(r, T) # {}} :
           S # {} => \E T \in S : LockBlockers(r, T) \cap S = {}

\* a sweep holds sessionsMu and waits for the mu of a session that a
\* handleClientPacket holds for its update of lastActive, while another
\* handleClientPacket waits for sessionsMu
C27_Witness ==
    /\ sessionsMu[1] \in {Holder("reaper", 0), Holder("mon", 0)}
    /\ \E t \in 1..Len(hcp[1]) :
         /\ hcp[1][t].pc = "touched"
         /\ Holder("hcp", t) \in LockBlockers(1, sessionsMu[1])
    /\ \E t \in 1..Len(hcp[1]) :
         /\ hcp[1][t].pc = "lock"
         /\ sessionsMu[1] \in LockBlockers(1, Holder("hcp", t))
====
